---- MODULE Spec2Model ----
(***************************************************************************)
(* Batch certificate generation: the generate-certificates edge function   *)
(* (the orchestrator), the stores it reads and writes, the page that       *)
(* creates a batch with its certificate records and the pages that create  *)
(* and delete a template.                                                  *)
(*                                                                         *)
(* Text is a sequence of one-character strings.  A store call is one       *)
(* atomic step that either takes effect and returns, or returns an error   *)
(* and leaves the store as it was.  A table is a function from the ids of  *)
(* its rows to the rows.                                                   *)
(***************************************************************************)
EXTENDS Integers, Sequences, FiniteSets, TLC

\* ---------------------------------------------------------------- bounds
\* Requests one after the other (SeqSpec): batches and certificate records
\* created, requests received, templates created.
SeqMaxBatches == 1
SeqMaxCerts == 3
SeqMaxInvocations == 2
SeqMaxTemplates == 1

\* Requests in progress at once (Spec).
MaxBatches == 1
MaxCerts == 1
MaxInvocations == 2
MaxTemplates == 1

\* Requests for different batches at once (ParSpec).
ParMaxBatches == 2
ParMaxCerts == 2
ParMaxInvocations == 2
ParMaxTemplates == 1

\* One batch of one record, one request (RenderSpec).
RenderMaxBatches == 1
RenderMaxCerts == 1
RenderMaxInvocations == 1
RenderMaxTemplates == 1

\* One request followed to its response (LiveSpec).
LiveMaxBatches == 1
LiveMaxCerts == 3
LiveMaxInvocations == 1
LiveMaxTemplates == 1

Runs == 1..MaxInvocations

\* ------------------------------------------------------------------ text
NoText == <<>>
NoMessage == "none"

Digits == <<"0", "1", "2", "3", "4", "5", "6", "7", "8", "9">>

IsDigit(ch) == \E d \in 1..10 : Digits[d] = ch

DigitValue(ch) == (CHOOSE d \in 1..10 : Digits[d] = ch) - 1

RECURSIVE NatToText(_)
NatToText(n) ==
    IF n < 10 THEN <<Digits[n + 1]>>
    ELSE NatToText(n \div 10) \o <<Digits[(n % 10) + 1]>>

RECURSIVE TextToNat(_)
TextToNat(s) ==
    IF s = <<>> THEN 0
    ELSE 10 * TextToNat(SubSeq(s, 1, Len(s) - 1)) + DigitValue(s[Len(s)])

\* The grave accent and the apostrophe, written by name.
Grave == "GRAVE"
Apostrophe == "APOSTROPHE"

\* The printable characters in the order of their codes, from 32 (space) to
\* 126 (tilde).
CharOrder ==
    <<" ", "!", "\"", "#", "$", "%", "&", Apostrophe, "(", ")", "*", "+", ",", "-", ".", "/",
      "0", "1", "2", "3", "4", "5", "6", "7", "8", "9", ":", ";", "<", "=", ">", "?",
      "@", "A", "B", "C", "D", "E", "F", "G", "H", "I", "J", "K", "L", "M", "N", "O",
      "P", "Q", "R", "S", "T", "U", "V", "W", "X", "Y", "Z", "[", "\\", "]", "^", "_",
      Grave, "a", "b", "c", "d", "e", "f", "g", "h", "i", "j", "k", "l", "m", "n", "o",
      "p", "q", "r", "s", "t", "u", "v", "w", "x", "y", "z", "{", "|", "}", "~">>

\* The code of a character: tab, line feed, carriage return or printable.
Code(ch) ==
    IF ch = "\t" THEN 9
    ELSE IF ch = "\n" THEN 10
    ELSE IF ch = "\r" THEN 13
    ELSE 31 + (CHOOSE i \in 1..Len(CharOrder) : CharOrder[i] = ch)

HasCode(c) == c \in {9, 10, 13} \cup (32..126)

CharOf(c) ==
    IF c = 9 THEN "\t"
    ELSE IF c = 10 THEN "\n"
    ELSE IF c = 13 THEN "\r"
    ELSE CharOrder[c - 31]

\* ------------------------------------------------- placeholder substitution
\* `{{${key}}}`
Placeholder(key) == <<"{", "{">> \o key \o <<"}", "}">>

AllDigits(key) == key # <<>> /\ \A i \in 1..Len(key) : IsDigit(key[i])

\* Character tests of the pattern language.
IsLetter(ch) == Code(ch) \in (65..90) \cup (97..122)

IsWordChar(ch) == IsLetter(ch) \/ IsDigit(ch) \/ ch = "_"

IsSpace(ch) == Code(ch) \in {9, 10, 11, 12, 13, 32}

IsOctal(ch) == IsDigit(ch) /\ DigitValue(ch) <= 7

IsHex(ch) == IsDigit(ch) \/ Code(ch) \in (65..70) \cup (97..102)

HexValue(ch) ==
    IF IsDigit(ch) THEN DigitValue(ch)
    ELSE IF Code(ch) >= 97 THEN Code(ch) - 87 ELSE Code(ch) - 55

RECURSIVE HexToNat(_)
HexToNat(s) ==
    IF s = <<>> THEN 0
    ELSE 16 * HexToNat(SubSeq(s, 1, Len(s) - 1)) + HexValue(s[Len(s)])

\* The number written by the digits s in a base, read from the left on top
\* of acc; a number above max is given as over.
RECURSIVE ClampedNat(_, _, _, _, _)
ClampedNat(s, base, acc, max, over) ==
    IF s = <<>> THEN acc
    ELSE IF acc > (max - HexValue(s[1])) \div base THEN over
    ELSE ClampedNat(Tail(s), base, base * acc + HexValue(s[1]), max, over)

RECURSIVE OctalToNat(_)
OctalToNat(s) ==
    IF s = <<>> THEN 0
    ELSE 8 * OctalToNat(SubSeq(s, 1, Len(s) - 1)) + DigitValue(s[Len(s)])

\* The nodes of a compiled pattern.
Lit(ch) == [kind |-> "lit", ch |-> ch]

AnyChar == [kind |-> "any"]

ClassRange(lo, hi) == [e |-> "", lo |-> lo, hi |-> hi]

ClassEscape(e) == [e |-> e, lo |-> 0, hi |-> 0]

CharClass(negated, items) == [kind |-> "class", negated |-> negated, items |-> items]

\* The character with a given code; a code that no character of the text
\* has matches nothing.
CodeLit(c) == IF HasCode(c) THEN Lit(CharOf(c)) ELSE CharClass(FALSE, <<>>)

EmptyNode == [kind |-> "seq", nodes |-> <<>>]

ItemMatches(item, ch) ==
    IF item.e = "" THEN Code(ch) >= item.lo /\ Code(ch) <= item.hi
    ELSE IF item.e = "d" THEN IsDigit(ch)
    ELSE IF item.e = "D" THEN ~IsDigit(ch)
    ELSE IF item.e = "w" THEN IsWordChar(ch)
    ELSE IF item.e = "W" THEN ~IsWordChar(ch)
    ELSE IF item.e = "s" THEN IsSpace(ch)
    ELSE ~IsSpace(ch)

\* A pattern element that takes one character: a character, a dot (any
\* character but a line terminator: the s flag is not set) or a class.
CharMatches(node, ch) ==
    IF node.kind = "lit" THEN node.ch = ch
    ELSE IF node.kind = "any" THEN ch \notin {"\n", "\r"}
    ELSE (\E k \in 1..Len(node.items) : ItemMatches(node.items[k], ch)) # node.negated

\* --- the parser of new RegExp(pattern, 'g')
RECURSIVE DigitsEnd(_, _)
DigitsEnd(p, i) == IF i <= Len(p) /\ IsDigit(p[i]) THEN DigitsEnd(p, i + 1) ELSE i

RECURSIVE FindChar(_, _, _)
FindChar(p, i, ch) ==
    IF i > Len(p) THEN 0 ELSE IF p[i] = ch THEN i ELSE FindChar(p, i + 1, ch)

\* The codes above 127 that may start an identifier (ID_Start of Unicode
\* 17), as ranges.
IdentifierStartRanges ==
    <<
      <<170, 170>>, <<181, 181>>, <<186, 186>>, <<192, 214>>, <<216, 246>>, <<248, 705>>,
      <<710, 721>>, <<736, 740>>, <<748, 748>>, <<750, 750>>, <<880, 884>>, <<886, 887>>,
      <<890, 893>>, <<895, 895>>, <<902, 902>>, <<904, 906>>, <<908, 908>>, <<910, 929>>,
      <<931, 1013>>, <<1015, 1153>>, <<1162, 1327>>, <<1329, 1366>>, <<1369, 1369>>, <<1376, 1416>>,
      <<1488, 1514>>, <<1519, 1522>>, <<1568, 1610>>, <<1646, 1647>>, <<1649, 1747>>, <<1749, 1749>>,
      <<1765, 1766>>, <<1774, 1775>>, <<1786, 1788>>, <<1791, 1791>>, <<1808, 1808>>, <<1810, 1839>>,
      <<1869, 1957>>, <<1969, 1969>>, <<1994, 2026>>, <<2036, 2037>>, <<2042, 2042>>, <<2048, 2069>>,
      <<2074, 2074>>, <<2084, 2084>>, <<2088, 2088>>, <<2112, 2136>>, <<2144, 2154>>, <<2160, 2183>>,
      <<2185, 2191>>, <<2208, 2249>>, <<2308, 2361>>, <<2365, 2365>>, <<2384, 2384>>, <<2392, 2401>>,
      <<2417, 2432>>, <<2437, 2444>>, <<2447, 2448>>, <<2451, 2472>>, <<2474, 2480>>, <<2482, 2482>>,
      <<2486, 2489>>, <<2493, 2493>>, <<2510, 2510>>, <<2524, 2525>>, <<2527, 2529>>, <<2544, 2545>>,
      <<2556, 2556>>, <<2565, 2570>>, <<2575, 2576>>, <<2579, 2600>>, <<2602, 2608>>, <<2610, 2611>>,
      <<2613, 2614>>, <<2616, 2617>>, <<2649, 2652>>, <<2654, 2654>>, <<2674, 2676>>, <<2693, 2701>>,
      <<2703, 2705>>, <<2707, 2728>>, <<2730, 2736>>, <<2738, 2739>>, <<2741, 2745>>, <<2749, 2749>>,
      <<2768, 2768>>, <<2784, 2785>>, <<2809, 2809>>, <<2821, 2828>>, <<2831, 2832>>, <<2835, 2856>>,
      <<2858, 2864>>, <<2866, 2867>>, <<2869, 2873>>, <<2877, 2877>>, <<2908, 2909>>, <<2911, 2913>>,
      <<2929, 2929>>, <<2947, 2947>>, <<2949, 2954>>, <<2958, 2960>>, <<2962, 2965>>, <<2969, 2970>>,
      <<2972, 2972>>, <<2974, 2975>>, <<2979, 2980>>, <<2984, 2986>>, <<2990, 3001>>, <<3024, 3024>>,
      <<3077, 3084>>, <<3086, 3088>>, <<3090, 3112>>, <<3114, 3129>>, <<3133, 3133>>, <<3160, 3162>>,
      <<3164, 3165>>, <<3168, 3169>>, <<3200, 3200>>, <<3205, 3212>>, <<3214, 3216>>, <<3218, 3240>>,
      <<3242, 3251>>, <<3253, 3257>>, <<3261, 3261>>, <<3292, 3294>>, <<3296, 3297>>, <<3313, 3314>>,
      <<3332, 3340>>, <<3342, 3344>>, <<3346, 3386>>, <<3389, 3389>>, <<3406, 3406>>, <<3412, 3414>>,
      <<3423, 3425>>, <<3450, 3455>>, <<3461, 3478>>, <<3482, 3505>>, <<3507, 3515>>, <<3517, 3517>>,
      <<3520, 3526>>, <<3585, 3632>>, <<3634, 3635>>, <<3648, 3654>>, <<3713, 3714>>, <<3716, 3716>>,
      <<3718, 3722>>, <<3724, 3747>>, <<3749, 3749>>, <<3751, 3760>>, <<3762, 3763>>, <<3773, 3773>>,
      <<3776, 3780>>, <<3782, 3782>>, <<3804, 3807>>, <<3840, 3840>>, <<3904, 3911>>, <<3913, 3948>>,
      <<3976, 3980>>, <<4096, 4138>>, <<4159, 4159>>, <<4176, 4181>>, <<4186, 4189>>, <<4193, 4193>>,
      <<4197, 4198>>, <<4206, 4208>>, <<4213, 4225>>, <<4238, 4238>>, <<4256, 4293>>, <<4295, 4295>>,
      <<4301, 4301>>, <<4304, 4346>>, <<4348, 4680>>, <<4682, 4685>>, <<4688, 4694>>, <<4696, 4696>>,
      <<4698, 4701>>, <<4704, 4744>>, <<4746, 4749>>, <<4752, 4784>>, <<4786, 4789>>, <<4792, 4798>>,
      <<4800, 4800>>, <<4802, 4805>>, <<4808, 4822>>, <<4824, 4880>>, <<4882, 4885>>, <<4888, 4954>>,
      <<4992, 5007>>, <<5024, 5109>>, <<5112, 5117>>, <<5121, 5740>>, <<5743, 5759>>, <<5761, 5786>>,
      <<5792, 5866>>, <<5870, 5880>>, <<5888, 5905>>, <<5919, 5937>>, <<5952, 5969>>, <<5984, 5996>>,
      <<5998, 6000>>, <<6016, 6067>>, <<6103, 6103>>, <<6108, 6108>>, <<6176, 6264>>, <<6272, 6312>>,
      <<6314, 6314>>, <<6320, 6389>>, <<6400, 6430>>, <<6480, 6509>>, <<6512, 6516>>, <<6528, 6571>>,
      <<6576, 6601>>, <<6656, 6678>>, <<6688, 6740>>, <<6823, 6823>>, <<6917, 6963>>, <<6981, 6988>>,
      <<7043, 7072>>, <<7086, 7087>>, <<7098, 7141>>, <<7168, 7203>>, <<7245, 7247>>, <<7258, 7293>>,
      <<7296, 7306>>, <<7312, 7354>>, <<7357, 7359>>, <<7401, 7404>>, <<7406, 7411>>, <<7413, 7414>>,
      <<7418, 7418>>, <<7424, 7615>>, <<7680, 7957>>, <<7960, 7965>>, <<7968, 8005>>, <<8008, 8013>>,
      <<8016, 8023>>, <<8025, 8025>>, <<8027, 8027>>, <<8029, 8029>>, <<8031, 8061>>, <<8064, 8116>>,
      <<8118, 8124>>, <<8126, 8126>>, <<8130, 8132>>, <<8134, 8140>>, <<8144, 8147>>, <<8150, 8155>>,
      <<8160, 8172>>, <<8178, 8180>>, <<8182, 8188>>, <<8305, 8305>>, <<8319, 8319>>, <<8336, 8348>>,
      <<8450, 8450>>, <<8455, 8455>>, <<8458, 8467>>, <<8469, 8469>>, <<8472, 8477>>, <<8484, 8484>>,
      <<8486, 8486>>, <<8488, 8488>>, <<8490, 8505>>, <<8508, 8511>>, <<8517, 8521>>, <<8526, 8526>>,
      <<8544, 8584>>, <<11264, 11492>>, <<11499, 11502>>, <<11506, 11507>>, <<11520, 11557>>, <<11559, 11559>>,
      <<11565, 11565>>, <<11568, 11623>>, <<11631, 11631>>, <<11648, 11670>>, <<11680, 11686>>, <<11688, 11694>>,
      <<11696, 11702>>, <<11704, 11710>>, <<11712, 11718>>, <<11720, 11726>>, <<11728, 11734>>, <<11736, 11742>>,
      <<12293, 12295>>, <<12321, 12329>>, <<12337, 12341>>, <<12344, 12348>>, <<12353, 12438>>, <<12443, 12447>>,
      <<12449, 12538>>, <<12540, 12543>>, <<12549, 12591>>, <<12593, 12686>>, <<12704, 12735>>, <<12784, 12799>>,
      <<13312, 19903>>, <<19968, 42124>>, <<42192, 42237>>, <<42240, 42508>>, <<42512, 42527>>, <<42538, 42539>>,
      <<42560, 42606>>, <<42623, 42653>>, <<42656, 42735>>, <<42775, 42783>>, <<42786, 42888>>, <<42891, 42972>>,
      <<42993, 43009>>, <<43011, 43013>>, <<43015, 43018>>, <<43020, 43042>>, <<43072, 43123>>, <<43138, 43187>>,
      <<43250, 43255>>, <<43259, 43259>>, <<43261, 43262>>, <<43274, 43301>>, <<43312, 43334>>, <<43360, 43388>>,
      <<43396, 43442>>, <<43471, 43471>>, <<43488, 43492>>, <<43494, 43503>>, <<43514, 43518>>, <<43520, 43560>>,
      <<43584, 43586>>, <<43588, 43595>>, <<43616, 43638>>, <<43642, 43642>>, <<43646, 43695>>, <<43697, 43697>>,
      <<43701, 43702>>, <<43705, 43709>>, <<43712, 43712>>, <<43714, 43714>>, <<43739, 43741>>, <<43744, 43754>>,
      <<43762, 43764>>, <<43777, 43782>>, <<43785, 43790>>, <<43793, 43798>>, <<43808, 43814>>, <<43816, 43822>>,
      <<43824, 43866>>, <<43868, 43881>>, <<43888, 44002>>, <<44032, 55203>>, <<55216, 55238>>, <<55243, 55291>>,
      <<63744, 64109>>, <<64112, 64217>>, <<64256, 64262>>, <<64275, 64279>>, <<64285, 64285>>, <<64287, 64296>>,
      <<64298, 64310>>, <<64312, 64316>>, <<64318, 64318>>, <<64320, 64321>>, <<64323, 64324>>, <<64326, 64433>>,
      <<64467, 64829>>, <<64848, 64911>>, <<64914, 64967>>, <<65008, 65019>>, <<65136, 65140>>, <<65142, 65276>>,
      <<65313, 65338>>, <<65345, 65370>>, <<65382, 65470>>, <<65474, 65479>>, <<65482, 65487>>, <<65490, 65495>>,
      <<65498, 65500>>, <<65536, 65547>>, <<65549, 65574>>, <<65576, 65594>>, <<65596, 65597>>, <<65599, 65613>>,
      <<65616, 65629>>, <<65664, 65786>>, <<65856, 65908>>, <<66176, 66204>>, <<66208, 66256>>, <<66304, 66335>>,
      <<66349, 66378>>, <<66384, 66421>>, <<66432, 66461>>, <<66464, 66499>>, <<66504, 66511>>, <<66513, 66517>>,
      <<66560, 66717>>, <<66736, 66771>>, <<66776, 66811>>, <<66816, 66855>>, <<66864, 66915>>, <<66928, 66938>>,
      <<66940, 66954>>, <<66956, 66962>>, <<66964, 66965>>, <<66967, 66977>>, <<66979, 66993>>, <<66995, 67001>>,
      <<67003, 67004>>, <<67008, 67059>>, <<67072, 67382>>, <<67392, 67413>>, <<67424, 67431>>, <<67456, 67461>>,
      <<67463, 67504>>, <<67506, 67514>>, <<67584, 67589>>, <<67592, 67592>>, <<67594, 67637>>, <<67639, 67640>>,
      <<67644, 67644>>, <<67647, 67669>>, <<67680, 67702>>, <<67712, 67742>>, <<67808, 67826>>, <<67828, 67829>>,
      <<67840, 67861>>, <<67872, 67897>>, <<67904, 67929>>, <<67968, 68023>>, <<68030, 68031>>, <<68096, 68096>>,
      <<68112, 68115>>, <<68117, 68119>>, <<68121, 68149>>, <<68192, 68220>>, <<68224, 68252>>, <<68288, 68295>>,
      <<68297, 68324>>, <<68352, 68405>>, <<68416, 68437>>, <<68448, 68466>>, <<68480, 68497>>, <<68608, 68680>>,
      <<68736, 68786>>, <<68800, 68850>>, <<68864, 68899>>, <<68938, 68965>>, <<68975, 68997>>, <<69248, 69289>>,
      <<69296, 69297>>, <<69314, 69319>>, <<69376, 69404>>, <<69415, 69415>>, <<69424, 69445>>, <<69488, 69505>>,
      <<69552, 69572>>, <<69600, 69622>>, <<69635, 69687>>, <<69745, 69746>>, <<69749, 69749>>, <<69763, 69807>>,
      <<69840, 69864>>, <<69891, 69926>>, <<69956, 69956>>, <<69959, 69959>>, <<69968, 70002>>, <<70006, 70006>>,
      <<70019, 70066>>, <<70081, 70084>>, <<70106, 70106>>, <<70108, 70108>>, <<70144, 70161>>, <<70163, 70187>>,
      <<70207, 70208>>, <<70272, 70278>>, <<70280, 70280>>, <<70282, 70285>>, <<70287, 70301>>, <<70303, 70312>>,
      <<70320, 70366>>, <<70405, 70412>>, <<70415, 70416>>, <<70419, 70440>>, <<70442, 70448>>, <<70450, 70451>>,
      <<70453, 70457>>, <<70461, 70461>>, <<70480, 70480>>, <<70493, 70497>>, <<70528, 70537>>, <<70539, 70539>>,
      <<70542, 70542>>, <<70544, 70581>>, <<70583, 70583>>, <<70609, 70609>>, <<70611, 70611>>, <<70656, 70708>>,
      <<70727, 70730>>, <<70751, 70753>>, <<70784, 70831>>, <<70852, 70853>>, <<70855, 70855>>, <<71040, 71086>>,
      <<71128, 71131>>, <<71168, 71215>>, <<71236, 71236>>, <<71296, 71338>>, <<71352, 71352>>, <<71424, 71450>>,
      <<71488, 71494>>, <<71680, 71723>>, <<71840, 71903>>, <<71935, 71942>>, <<71945, 71945>>, <<71948, 71955>>,
      <<71957, 71958>>, <<71960, 71983>>, <<71999, 71999>>, <<72001, 72001>>, <<72096, 72103>>, <<72106, 72144>>,
      <<72161, 72161>>, <<72163, 72163>>, <<72192, 72192>>, <<72203, 72242>>, <<72250, 72250>>, <<72272, 72272>>,
      <<72284, 72329>>, <<72349, 72349>>, <<72368, 72440>>, <<72640, 72672>>, <<72704, 72712>>, <<72714, 72750>>,
      <<72768, 72768>>, <<72818, 72847>>, <<72960, 72966>>, <<72968, 72969>>, <<72971, 73008>>, <<73030, 73030>>,
      <<73056, 73061>>, <<73063, 73064>>, <<73066, 73097>>, <<73112, 73112>>, <<73136, 73179>>, <<73440, 73458>>,
      <<73474, 73474>>, <<73476, 73488>>, <<73490, 73523>>, <<73648, 73648>>, <<73728, 74649>>, <<74752, 74862>>,
      <<74880, 75075>>, <<77712, 77808>>, <<77824, 78895>>, <<78913, 78918>>, <<78944, 82938>>, <<82944, 83526>>,
      <<90368, 90397>>, <<92160, 92728>>, <<92736, 92766>>, <<92784, 92862>>, <<92880, 92909>>, <<92928, 92975>>,
      <<92992, 92995>>, <<93027, 93047>>, <<93053, 93071>>, <<93504, 93548>>, <<93760, 93823>>, <<93856, 93880>>,
      <<93883, 93907>>, <<93952, 94026>>, <<94032, 94032>>, <<94099, 94111>>, <<94176, 94177>>, <<94179, 94179>>,
      <<94194, 94198>>, <<94208, 101589>>, <<101631, 101662>>, <<101760, 101874>>, <<110576, 110579>>, <<110581, 110587>>,
      <<110589, 110590>>, <<110592, 110882>>, <<110898, 110898>>, <<110928, 110930>>, <<110933, 110933>>, <<110948, 110951>>,
      <<110960, 111355>>, <<113664, 113770>>, <<113776, 113788>>, <<113792, 113800>>, <<113808, 113817>>, <<119808, 119892>>,
      <<119894, 119964>>, <<119966, 119967>>, <<119970, 119970>>, <<119973, 119974>>, <<119977, 119980>>, <<119982, 119993>>,
      <<119995, 119995>>, <<119997, 120003>>, <<120005, 120069>>, <<120071, 120074>>, <<120077, 120084>>, <<120086, 120092>>,
      <<120094, 120121>>, <<120123, 120126>>, <<120128, 120132>>, <<120134, 120134>>, <<120138, 120144>>, <<120146, 120485>>,
      <<120488, 120512>>, <<120514, 120538>>, <<120540, 120570>>, <<120572, 120596>>, <<120598, 120628>>, <<120630, 120654>>,
      <<120656, 120686>>, <<120688, 120712>>, <<120714, 120744>>, <<120746, 120770>>, <<120772, 120779>>, <<122624, 122654>>,
      <<122661, 122666>>, <<122928, 122989>>, <<123136, 123180>>, <<123191, 123197>>, <<123214, 123214>>, <<123536, 123565>>,
      <<123584, 123627>>, <<124112, 124139>>, <<124368, 124397>>, <<124400, 124400>>, <<124608, 124638>>, <<124640, 124642>>,
      <<124644, 124645>>, <<124647, 124653>>, <<124656, 124660>>, <<124670, 124671>>, <<124896, 124902>>, <<124904, 124907>>,
      <<124909, 124910>>, <<124912, 124926>>, <<124928, 125124>>, <<125184, 125251>>, <<125259, 125259>>, <<126464, 126467>>,
      <<126469, 126495>>, <<126497, 126498>>, <<126500, 126500>>, <<126503, 126503>>, <<126505, 126514>>, <<126516, 126519>>,
      <<126521, 126521>>, <<126523, 126523>>, <<126530, 126530>>, <<126535, 126535>>, <<126537, 126537>>, <<126539, 126539>>,
      <<126541, 126543>>, <<126545, 126546>>, <<126548, 126548>>, <<126551, 126551>>, <<126553, 126553>>, <<126555, 126555>>,
      <<126557, 126557>>, <<126559, 126559>>, <<126561, 126562>>, <<126564, 126564>>, <<126567, 126570>>, <<126572, 126578>>,
      <<126580, 126583>>, <<126585, 126588>>, <<126590, 126590>>, <<126592, 126601>>, <<126603, 126619>>, <<126625, 126627>>,
      <<126629, 126633>>, <<126635, 126651>>, <<131072, 173791>>, <<173824, 178205>>, <<178208, 183981>>, <<183984, 191456>>,
      <<191472, 192093>>, <<194560, 195101>>, <<196608, 201546>>, <<201552, 210041>> >>

\* The codes above 127 that may continue an identifier and may not start
\* one (the rest of ID_Continue of Unicode 17, and the two joiners), as
\* ranges.
IdentifierPartRanges ==
    <<
      <<183, 183>>, <<768, 879>>, <<903, 903>>, <<1155, 1159>>, <<1425, 1469>>, <<1471, 1471>>,
      <<1473, 1474>>, <<1476, 1477>>, <<1479, 1479>>, <<1552, 1562>>, <<1611, 1641>>, <<1648, 1648>>,
      <<1750, 1756>>, <<1759, 1764>>, <<1767, 1768>>, <<1770, 1773>>, <<1776, 1785>>, <<1809, 1809>>,
      <<1840, 1866>>, <<1958, 1968>>, <<1984, 1993>>, <<2027, 2035>>, <<2045, 2045>>, <<2070, 2073>>,
      <<2075, 2083>>, <<2085, 2087>>, <<2089, 2093>>, <<2137, 2139>>, <<2199, 2207>>, <<2250, 2273>>,
      <<2275, 2307>>, <<2362, 2364>>, <<2366, 2383>>, <<2385, 2391>>, <<2402, 2403>>, <<2406, 2415>>,
      <<2433, 2435>>, <<2492, 2492>>, <<2494, 2500>>, <<2503, 2504>>, <<2507, 2509>>, <<2519, 2519>>,
      <<2530, 2531>>, <<2534, 2543>>, <<2558, 2558>>, <<2561, 2563>>, <<2620, 2620>>, <<2622, 2626>>,
      <<2631, 2632>>, <<2635, 2637>>, <<2641, 2641>>, <<2662, 2673>>, <<2677, 2677>>, <<2689, 2691>>,
      <<2748, 2748>>, <<2750, 2757>>, <<2759, 2761>>, <<2763, 2765>>, <<2786, 2787>>, <<2790, 2799>>,
      <<2810, 2815>>, <<2817, 2819>>, <<2876, 2876>>, <<2878, 2884>>, <<2887, 2888>>, <<2891, 2893>>,
      <<2901, 2903>>, <<2914, 2915>>, <<2918, 2927>>, <<2946, 2946>>, <<3006, 3010>>, <<3014, 3016>>,
      <<3018, 3021>>, <<3031, 3031>>, <<3046, 3055>>, <<3072, 3076>>, <<3132, 3132>>, <<3134, 3140>>,
      <<3142, 3144>>, <<3146, 3149>>, <<3157, 3158>>, <<3170, 3171>>, <<3174, 3183>>, <<3201, 3203>>,
      <<3260, 3260>>, <<3262, 3268>>, <<3270, 3272>>, <<3274, 3277>>, <<3285, 3286>>, <<3298, 3299>>,
      <<3302, 3311>>, <<3315, 3315>>, <<3328, 3331>>, <<3387, 3388>>, <<3390, 3396>>, <<3398, 3400>>,
      <<3402, 3405>>, <<3415, 3415>>, <<3426, 3427>>, <<3430, 3439>>, <<3457, 3459>>, <<3530, 3530>>,
      <<3535, 3540>>, <<3542, 3542>>, <<3544, 3551>>, <<3558, 3567>>, <<3570, 3571>>, <<3633, 3633>>,
      <<3636, 3642>>, <<3655, 3662>>, <<3664, 3673>>, <<3761, 3761>>, <<3764, 3772>>, <<3784, 3790>>,
      <<3792, 3801>>, <<3864, 3865>>, <<3872, 3881>>, <<3893, 3893>>, <<3895, 3895>>, <<3897, 3897>>,
      <<3902, 3903>>, <<3953, 3972>>, <<3974, 3975>>, <<3981, 3991>>, <<3993, 4028>>, <<4038, 4038>>,
      <<4139, 4158>>, <<4160, 4169>>, <<4182, 4185>>, <<4190, 4192>>, <<4194, 4196>>, <<4199, 4205>>,
      <<4209, 4212>>, <<4226, 4237>>, <<4239, 4253>>, <<4957, 4959>>, <<4969, 4977>>, <<5906, 5909>>,
      <<5938, 5940>>, <<5970, 5971>>, <<6002, 6003>>, <<6068, 6099>>, <<6109, 6109>>, <<6112, 6121>>,
      <<6155, 6157>>, <<6159, 6169>>, <<6313, 6313>>, <<6432, 6443>>, <<6448, 6459>>, <<6470, 6479>>,
      <<6608, 6618>>, <<6679, 6683>>, <<6741, 6750>>, <<6752, 6780>>, <<6783, 6793>>, <<6800, 6809>>,
      <<6832, 6845>>, <<6847, 6877>>, <<6880, 6891>>, <<6912, 6916>>, <<6964, 6980>>, <<6992, 7001>>,
      <<7019, 7027>>, <<7040, 7042>>, <<7073, 7085>>, <<7088, 7097>>, <<7142, 7155>>, <<7204, 7223>>,
      <<7232, 7241>>, <<7248, 7257>>, <<7376, 7378>>, <<7380, 7400>>, <<7405, 7405>>, <<7412, 7412>>,
      <<7415, 7417>>, <<7616, 7679>>, <<8204, 8205>>, <<8255, 8256>>, <<8276, 8276>>, <<8400, 8412>>,
      <<8417, 8417>>, <<8421, 8432>>, <<11503, 11505>>, <<11647, 11647>>, <<11744, 11775>>, <<12330, 12335>>,
      <<12441, 12442>>, <<12539, 12539>>, <<42528, 42537>>, <<42607, 42607>>, <<42612, 42621>>, <<42654, 42655>>,
      <<42736, 42737>>, <<43010, 43010>>, <<43014, 43014>>, <<43019, 43019>>, <<43043, 43047>>, <<43052, 43052>>,
      <<43136, 43137>>, <<43188, 43205>>, <<43216, 43225>>, <<43232, 43249>>, <<43263, 43273>>, <<43302, 43309>>,
      <<43335, 43347>>, <<43392, 43395>>, <<43443, 43456>>, <<43472, 43481>>, <<43493, 43493>>, <<43504, 43513>>,
      <<43561, 43574>>, <<43587, 43587>>, <<43596, 43597>>, <<43600, 43609>>, <<43643, 43645>>, <<43696, 43696>>,
      <<43698, 43700>>, <<43703, 43704>>, <<43710, 43711>>, <<43713, 43713>>, <<43755, 43759>>, <<43765, 43766>>,
      <<44003, 44010>>, <<44012, 44013>>, <<44016, 44025>>, <<64286, 64286>>, <<65024, 65039>>, <<65056, 65071>>,
      <<65075, 65076>>, <<65101, 65103>>, <<65296, 65305>>, <<65343, 65343>>, <<65381, 65381>>, <<66045, 66045>>,
      <<66272, 66272>>, <<66422, 66426>>, <<66720, 66729>>, <<68097, 68099>>, <<68101, 68102>>, <<68108, 68111>>,
      <<68152, 68154>>, <<68159, 68159>>, <<68325, 68326>>, <<68900, 68903>>, <<68912, 68921>>, <<68928, 68937>>,
      <<68969, 68973>>, <<69291, 69292>>, <<69370, 69375>>, <<69446, 69456>>, <<69506, 69509>>, <<69632, 69634>>,
      <<69688, 69702>>, <<69734, 69744>>, <<69747, 69748>>, <<69759, 69762>>, <<69808, 69818>>, <<69826, 69826>>,
      <<69872, 69881>>, <<69888, 69890>>, <<69927, 69940>>, <<69942, 69951>>, <<69957, 69958>>, <<70003, 70003>>,
      <<70016, 70018>>, <<70067, 70080>>, <<70089, 70092>>, <<70094, 70105>>, <<70188, 70199>>, <<70206, 70206>>,
      <<70209, 70209>>, <<70367, 70378>>, <<70384, 70393>>, <<70400, 70403>>, <<70459, 70460>>, <<70462, 70468>>,
      <<70471, 70472>>, <<70475, 70477>>, <<70487, 70487>>, <<70498, 70499>>, <<70502, 70508>>, <<70512, 70516>>,
      <<70584, 70592>>, <<70594, 70594>>, <<70597, 70597>>, <<70599, 70602>>, <<70604, 70608>>, <<70610, 70610>>,
      <<70625, 70626>>, <<70709, 70726>>, <<70736, 70745>>, <<70750, 70750>>, <<70832, 70851>>, <<70864, 70873>>,
      <<71087, 71093>>, <<71096, 71104>>, <<71132, 71133>>, <<71216, 71232>>, <<71248, 71257>>, <<71339, 71351>>,
      <<71360, 71369>>, <<71376, 71395>>, <<71453, 71467>>, <<71472, 71481>>, <<71724, 71738>>, <<71904, 71913>>,
      <<71984, 71989>>, <<71991, 71992>>, <<71995, 71998>>, <<72000, 72000>>, <<72002, 72003>>, <<72016, 72025>>,
      <<72145, 72151>>, <<72154, 72160>>, <<72164, 72164>>, <<72193, 72202>>, <<72243, 72249>>, <<72251, 72254>>,
      <<72263, 72263>>, <<72273, 72283>>, <<72330, 72345>>, <<72544, 72551>>, <<72688, 72697>>, <<72751, 72758>>,
      <<72760, 72767>>, <<72784, 72793>>, <<72850, 72871>>, <<72873, 72886>>, <<73009, 73014>>, <<73018, 73018>>,
      <<73020, 73021>>, <<73023, 73029>>, <<73031, 73031>>, <<73040, 73049>>, <<73098, 73102>>, <<73104, 73105>>,
      <<73107, 73111>>, <<73120, 73129>>, <<73184, 73193>>, <<73459, 73462>>, <<73472, 73473>>, <<73475, 73475>>,
      <<73524, 73530>>, <<73534, 73538>>, <<73552, 73562>>, <<78912, 78912>>, <<78919, 78933>>, <<90398, 90425>>,
      <<92768, 92777>>, <<92864, 92873>>, <<92912, 92916>>, <<92976, 92982>>, <<93008, 93017>>, <<93552, 93561>>,
      <<94031, 94031>>, <<94033, 94087>>, <<94095, 94098>>, <<94180, 94180>>, <<94192, 94193>>, <<113821, 113822>>,
      <<118000, 118009>>, <<118528, 118573>>, <<118576, 118598>>, <<119141, 119145>>, <<119149, 119154>>, <<119163, 119170>>,
      <<119173, 119179>>, <<119210, 119213>>, <<119362, 119364>>, <<120782, 120831>>, <<121344, 121398>>, <<121403, 121452>>,
      <<121461, 121461>>, <<121476, 121476>>, <<121499, 121503>>, <<121505, 121519>>, <<122880, 122886>>, <<122888, 122904>>,
      <<122907, 122913>>, <<122915, 122916>>, <<122918, 122922>>, <<123023, 123023>>, <<123184, 123190>>, <<123200, 123209>>,
      <<123566, 123566>>, <<123628, 123641>>, <<124140, 124153>>, <<124398, 124399>>, <<124401, 124410>>, <<124643, 124643>>,
      <<124646, 124646>>, <<124654, 124655>>, <<124661, 124661>>, <<125136, 125142>>, <<125252, 125258>>, <<125264, 125273>>,
      <<130032, 130041>>, <<917760, 917999>> >>

\* A letter, "$", "_" or a code of IdentifierStartRanges.
IsIdentifierStart(c) ==
    IF c < 128 THEN c \in (65..90) \cup (97..122) \cup {36, 95}
    ELSE \E k \in 1..Len(IdentifierStartRanges) :
             c >= IdentifierStartRanges[k][1] /\ c <= IdentifierStartRanges[k][2]

IsIdentifierPart(c) ==
    IF c < 128 THEN c \in (48..57) \cup (65..90) \cup (97..122) \cup {36, 95}
    ELSE \/ IsIdentifierStart(c)
         \/ \E k \in 1..Len(IdentifierPartRanges) :
                c >= IdentifierPartRanges[k][1] /\ c <= IdentifierPartRanges[k][2]

\* What follows "\u" in a group name, at i: four hexadecimal digits, a lead
\* surrogate taking the trail surrogate written after it, or a code of at
\* most 10FFFF in braces.
UnicodeEscape(p, i) ==
    LET Four(j) == j + 3 <= Len(p) /\ \A k \in j..(j + 3) : IsHex(p[k])
        h == CHOOSE j \in (i + 1)..(Len(p) + 1) :
                 /\ j > Len(p) \/ ~IsHex(p[j])
                 /\ \A k \in (i + 1)..(j - 1) : IsHex(p[k])
        value == ClampedNat(SubSeq(p, i + 1, h - 1), 16, 0, 1114111, -1)
        lead == HexToNat(SubSeq(p, i, i + 3))
        trail == HexToNat(SubSeq(p, i + 6, i + 9))
    IN  IF i <= Len(p) /\ p[i] = "{"
        THEN IF h > i + 1 /\ h <= Len(p) /\ p[h] = "}" /\ value # -1
             THEN [ok |-> TRUE, code |-> value, i |-> h + 1]
             ELSE [ok |-> FALSE, code |-> 0, i |-> 0]
        ELSE IF ~Four(i) THEN [ok |-> FALSE, code |-> 0, i |-> 0]
        ELSE IF /\ lead \in 55296..56319
                /\ i + 5 <= Len(p) /\ p[i + 4] = "\\" /\ p[i + 5] = "u"
                /\ Four(i + 6) /\ trail \in 56320..57343
             THEN [ok |-> TRUE, code |-> 65536 + (lead - 55296) * 1024 + (trail - 56320),
                   i |-> i + 10]
        ELSE [ok |-> TRUE, code |-> lead, i |-> i + 4]

\* The name written after "(?<" or "\k<", from i on, as the codes of its
\* characters: a "\u" escape stands for the character it writes.  The name
\* starts with an identifier start, goes on with identifier parts and ends
\* at the first ">", written or escaped; i is the position after it.
RECURSIVE GroupNameFrom(_, _, _)
GroupNameFrom(p, i, acc) ==
    LET NoName == [ok |-> FALSE, name |-> <<>>, i |-> 0]
        Char(c) ==
            IF ~c.ok \/ c.code = 92 THEN NoName
            ELSE IF acc = <<>>
                 THEN IF IsIdentifierStart(c.code)
                      THEN GroupNameFrom(p, c.i, <<c.code>>) ELSE NoName
            ELSE IF c.code = 62 THEN [ok |-> TRUE, name |-> acc, i |-> c.i]
            ELSE IF IsIdentifierPart(c.code)
                 THEN GroupNameFrom(p, c.i, Append(acc, c.code)) ELSE NoName
    IN  IF i > Len(p) THEN NoName
        ELSE IF p[i] = "\\" /\ i + 1 <= Len(p) /\ p[i + 1] = "u"
             THEN Char(UnicodeEscape(p, i + 2))
        ELSE Char([ok |-> TRUE, code |-> Code(p[i]), i |-> i + 1])

GroupNameAt(p, i) == GroupNameFrom(p, i, <<>>)

\* The capturing groups of a pattern in the order of their left parentheses,
\* each with its name.
RECURSIVE ScanGroups(_, _, _, _)
ScanGroups(p, i, inClass, acc) ==
    IF i > Len(p) THEN acc
    ELSE IF p[i] = "\\" THEN ScanGroups(p, i + 2, inClass, acc)
    ELSE IF inClass THEN ScanGroups(p, i + 1, p[i] # "]", acc)
    ELSE IF p[i] = "[" THEN ScanGroups(p, i + 1, TRUE, acc)
    ELSE IF p[i] # "(" THEN ScanGroups(p, i + 1, FALSE, acc)
    ELSE IF ~(i + 1 <= Len(p) /\ p[i + 1] = "?")
         THEN ScanGroups(p, i + 1, FALSE, Append(acc, [named |-> FALSE, name |-> <<>>]))
    ELSE IF /\ i + 2 <= Len(p) /\ p[i + 2] = "<"
            /\ ~(i + 3 <= Len(p) /\ p[i + 3] \in {"=", "!"})
         THEN ScanGroups(p, i + 3, FALSE,
                         Append(acc, [named |-> TRUE, name |-> GroupNameAt(p, i + 3).name]))
    ELSE ScanGroups(p, i + 2, FALSE, acc)

NoQuantifier == [found |-> FALSE, min |-> 0, max |-> 0, i |-> 0]

\* The largest bound of a quantifier; it stands for no upper limit.
kInfinity == 2147483647

\* "{n}", "{n,}" or "{n,m}" at i; a bound above kInfinity is taken as
\* kInfinity, and max = -1 is no upper limit.
Braced(p, i) ==
    LET a == DigitsEnd(p, i + 1)
        b == DigitsEnd(p, a + 1)
        n == ClampedNat(SubSeq(p, i + 1, a - 1), 10, 0, kInfinity, kInfinity)
        m == ClampedNat(SubSeq(p, a + 1, b - 1), 10, 0, kInfinity, kInfinity)
    IN  IF p[i] # "{" \/ a = i + 1 \/ a > Len(p) THEN NoQuantifier
        ELSE IF p[a] = "}"
             THEN [found |-> TRUE, min |-> n, max |-> IF n = kInfinity THEN -1 ELSE n,
                   i |-> a + 1]
        ELSE IF p[a] # "," \/ b > Len(p) THEN NoQuantifier
        ELSE IF p[b] # "}" THEN NoQuantifier
        ELSE IF b = a + 1 THEN [found |-> TRUE, min |-> n, max |-> -1, i |-> b + 1]
        ELSE [found |-> TRUE, min |-> n, max |-> IF m = kInfinity THEN -1 ELSE m,
              i |-> b + 1]

QuantifierPrefix(p, i) ==
    IF i > Len(p) THEN NoQuantifier
    ELSE IF p[i] = "*" THEN [found |-> TRUE, min |-> 0, max |-> -1, i |-> i + 1]
    ELSE IF p[i] = "+" THEN [found |-> TRUE, min |-> 1, max |-> -1, i |-> i + 1]
    ELSE IF p[i] = "?" THEN [found |-> TRUE, min |-> 0, max |-> 1, i |-> i + 1]
    ELSE Braced(p, i)

\* The result of a parsing step: the node, the next position and the number
\* of capturing groups opened so far.
Fail == [ok |-> FALSE, node |-> EmptyNode, i |-> 0, g |-> 0]

Ok(node, i, g) == [ok |-> TRUE, node |-> node, i |-> i, g |-> g]

\* The atom with the quantifier that follows it, if any; g0 is the number of
\* groups opened before the atom.
Quantified(p, atom, g0) ==
    LET Repeated(q) ==
            LET lazy == q.i <= Len(p) /\ p[q.i] = "?"
            IN  IF ~q.found THEN atom
                ELSE IF q.max # -1 /\ q.min > q.max THEN Fail
                ELSE Ok([kind |-> "rep", min |-> q.min, max |-> q.max, greedy |-> ~lazy,
                         node |-> atom.node, first |-> g0 + 1, last |-> atom.g],
                        IF lazy THEN q.i + 1 ELSE q.i, atom.g)
    IN  IF ~atom.ok THEN atom ELSE Repeated(QuantifierPrefix(p, atom.i))

\* A legacy octal escape: the digits at i, at most three and at most \377.
OctalEnd(p, i) ==
    LET two == i + 1 <= Len(p) /\ IsOctal(p[i + 1])
        three == two /\ DigitValue(p[i]) <= 3 /\ i + 2 <= Len(p) /\ IsOctal(p[i + 2])
    IN  IF three THEN i + 3 ELSE IF two THEN i + 2 ELSE i + 1

HexAt(p, i, n) == i + n - 1 <= Len(p) /\ \A k \in i..(i + n - 1) : IsHex(p[k])

\* The character escapes that a class and the pattern outside it share;
\* code is the character's code, e the class escape, i the next position.
NoAtom == [ok |-> FALSE, e |-> "", code |-> 0, i |-> 0]

CodeAtom(code, i) == [ok |-> TRUE, e |-> "", code |-> code, i |-> i]

CharacterEscape(p, i, named) ==
    LET c == p[i + 1]
    IN  IF c \in {"d", "D", "s", "S", "w", "W"}
        THEN [ok |-> TRUE, e |-> c, code |-> 0, i |-> i + 2]
        ELSE IF c = "t" THEN CodeAtom(9, i + 2)
        ELSE IF c = "n" THEN CodeAtom(10, i + 2)
        ELSE IF c = "v" THEN CodeAtom(11, i + 2)
        ELSE IF c = "f" THEN CodeAtom(12, i + 2)
        ELSE IF c = "r" THEN CodeAtom(13, i + 2)
        ELSE IF IsOctal(c)
             THEN CodeAtom(OctalToNat(SubSeq(p, i + 1, OctalEnd(p, i + 1) - 1)),
                           OctalEnd(p, i + 1))
        ELSE IF c = "x" /\ HexAt(p, i + 2, 2)
             THEN CodeAtom(HexToNat(SubSeq(p, i + 2, i + 3)), i + 4)
        ELSE IF c = "u" /\ HexAt(p, i + 2, 4)
             THEN CodeAtom(HexToNat(SubSeq(p, i + 2, i + 5)), i + 6)
        ELSE IF c = "k" /\ named THEN NoAtom
        ELSE CodeAtom(Code(c), i + 2)

\* One member of a class.
ClassAtom(p, i, named) ==
    IF p[i] # "\\" THEN CodeAtom(Code(p[i]), i + 1)
    ELSE IF i = Len(p) THEN NoAtom
    ELSE LET c == p[i + 1]
         IN  IF c = "b" THEN CodeAtom(8, i + 2)
             ELSE IF c = "c"
                  THEN IF i + 2 <= Len(p) /\ (IsWordChar(p[i + 2]))
                       THEN CodeAtom(Code(p[i + 2]) % 32, i + 3)
                       ELSE CodeAtom(92, i + 1)
             ELSE CharacterEscape(p, i, named)

AtomItem(a) == IF a.e = "" THEN ClassRange(a.code, a.code) ELSE ClassEscape(a.e)

\* The members of a class from i to the closing bracket.
RECURSIVE ClassItems(_, _, _, _)
ClassItems(p, i, named, acc) ==
    IF i > Len(p) THEN [ok |-> FALSE, items |-> <<>>, i |-> 0]
    ELSE IF p[i] = "]" THEN [ok |-> TRUE, items |-> acc, i |-> i + 1]
    ELSE LET Ranged(a, b) ==
                 IF ~b.ok THEN [ok |-> FALSE, items |-> <<>>, i |-> 0]
                 ELSE IF a.e # "" \/ b.e # ""
                      THEN ClassItems(p, b.i, named,
                                      acc \o <<AtomItem(a), ClassRange(45, 45), AtomItem(b)>>)
                 ELSE IF a.code > b.code THEN [ok |-> FALSE, items |-> <<>>, i |-> 0]
                 ELSE ClassItems(p, b.i, named, Append(acc, ClassRange(a.code, b.code)))
             Member(a) ==
                 IF ~a.ok THEN [ok |-> FALSE, items |-> <<>>, i |-> 0]
                 ELSE IF ~(a.i + 1 <= Len(p) /\ p[a.i] = "-" /\ p[a.i + 1] # "]")
                      THEN ClassItems(p, a.i, named, Append(acc, AtomItem(a)))
                 ELSE Ranged(a, ClassAtom(p, a.i + 1, named))
         IN  Member(ClassAtom(p, i, named))

\* "[...]" at i.
ParseClass(p, i, named) ==
    LET negated == i + 1 <= Len(p) /\ p[i + 1] = "^"
        Class(items) ==
            [ok |-> items.ok, node |-> CharClass(negated, items.items), i |-> items.i]
    IN  Class(ClassItems(p, IF negated THEN i + 2 ELSE i + 1, named, <<>>))

\* The index of the first group with a name, 0 when there is none.
GroupIndex(names, name) ==
    IF \E k \in 1..Len(names) : names[k].named /\ names[k].name = name
    THEN CHOOSE k \in 1..Len(names) :
             /\ names[k].named /\ names[k].name = name
             /\ \A j \in 1..(k - 1) : ~(names[j].named /\ names[j].name = name)
    ELSE 0

HasNamed(names) == \E k \in 1..Len(names) : names[k].named

\* A backslash outside a class, at i: an assertion, a back reference or a
\* character.
ParseEscape(p, i, g, names) ==
    IF i = Len(p) THEN Fail
    ELSE LET c == p[i + 1]
             e == DigitsEnd(p, i + 1)
             name == GroupNameAt(p, i + 3)
             Character(a) ==
                 IF ~a.ok THEN Fail
                 ELSE IF a.e # ""
                      THEN Quantified(p, Ok(CharClass(FALSE, <<ClassEscape(a.e)>>), a.i, g), g)
                 ELSE Quantified(p, Ok(CodeLit(a.code), a.i, g), g)
         IN  IF c \in {"b", "B"} THEN Ok([kind |-> "wordb", negated |-> c = "B"], i + 2, g)
             ELSE IF IsDigit(c) /\ c # "0" /\ e - i <= 10
                     /\ TextToNat(SubSeq(p, i + 1, e - 1)) <= Len(names)
                  THEN Quantified(p, Ok([kind |-> "backref",
                                         index |-> TextToNat(SubSeq(p, i + 1, e - 1))],
                                        e, g), g)
             ELSE IF c \in {"8", "9"} THEN Quantified(p, Ok(Lit(c), i + 2, g), g)
             ELSE IF c = "c"
                  THEN IF i + 2 <= Len(p) /\ IsLetter(p[i + 2])
                       THEN Quantified(p, Ok(CodeLit(Code(p[i + 2]) % 32), i + 3, g), g)
                       ELSE Quantified(p, Ok(Lit("\\"), i + 1, g), g)
             ELSE IF c = "k" /\ HasNamed(names)
                  THEN IF /\ i + 2 <= Len(p) /\ p[i + 2] = "<"
                          /\ name.ok /\ GroupIndex(names, name.name) # 0
                       THEN Quantified(p, Ok([kind |-> "backref",
                                              index |-> GroupIndex(names, name.name)],
                                             name.i, g), g)
                       ELSE Fail
             ELSE Character(CharacterEscape(p, i, HasNamed(names)))

RECURSIVE ParseDisjunction(_, _, _, _)
RECURSIVE ParseAlternative(_, _, _, _, _)
RECURSIVE ParseTerm(_, _, _, _)
RECURSIVE ParseGroup(_, _, _, _)

\* The body of a group that starts at i, up to its right parenthesis.
GroupBody(p, i, g, names) ==
    LET Closed(d) ==
            IF d.ok /\ d.i <= Len(p) /\ p[d.i] = ")" THEN Ok(d.node, d.i + 1, d.g) ELSE Fail
    IN  Closed(ParseDisjunction(p, i, g, names))

\* "(" at i: a capturing group, "(?:", a lookahead, a lookbehind or a named
\* group.
ParseGroup(p, i, g, names) ==
    LET special == i + 1 <= Len(p) /\ p[i + 1] = "?"
        c == IF i + 2 <= Len(p) THEN p[i + 2] ELSE ""
        behind == c = "<" /\ i + 3 <= Len(p) /\ p[i + 3] \in {"=", "!"}
        name == GroupNameAt(p, i + 3)
        Capturing(body) ==
            IF ~body.ok THEN Fail
            ELSE Quantified(p, Ok([kind |-> "group", index |-> g + 1, node |-> body.node],
                                  body.i, body.g), g)
        Inner(inner) ==
            IF ~inner.ok THEN Fail
            ELSE IF c = ":"
            THEN Quantified(p, Ok([kind |-> "group", index |-> 0, node |-> inner.node],
                                  inner.i, inner.g), g)
            ELSE Quantified(p, Ok([kind |-> "look", ahead |-> TRUE, negated |-> c = "!",
                                   node |-> inner.node], inner.i, inner.g), g)
        Behind(back) ==
            IF ~back.ok THEN Fail
            ELSE Ok([kind |-> "look", ahead |-> FALSE, negated |-> p[i + 3] = "!",
                     node |-> back.node], back.i, back.g)
    IN  IF ~special THEN Capturing(GroupBody(p, i + 1, g + 1, names))
        ELSE IF c \in {":", "=", "!"} THEN Inner(GroupBody(p, i + 3, g, names))
        ELSE IF behind THEN Behind(GroupBody(p, i + 4, g, names))
        ELSE IF c = "<"
        THEN IF ~name.ok \/ GroupIndex(names, name.name) # g + 1
             THEN Fail
             ELSE Capturing(GroupBody(p, name.i, g + 1, names))
        ELSE Fail

\* One term at i: an assertion, or an atom with its quantifier.  A brace
\* that does not start a quantifier is a character; a quantifier with
\* nothing before it is an error.
ParseTerm(p, i, g, names) ==
    LET ch == p[i]
        Class(class) ==
            IF ~class.ok THEN Fail ELSE Quantified(p, Ok(class.node, class.i, g), g)
    IN  IF ch = "^" THEN Ok([kind |-> "bol"], i + 1, g)
        ELSE IF ch = "$" THEN Ok([kind |-> "eol"], i + 1, g)
        ELSE IF ch \in {"*", "+", "?"} THEN Fail
        ELSE IF ch = "{" /\ Braced(p, i).found THEN Fail
        ELSE IF ch = "(" THEN ParseGroup(p, i, g, names)
        ELSE IF ch = "[" THEN Class(ParseClass(p, i, HasNamed(names)))
        ELSE IF ch = "." THEN Quantified(p, Ok(AnyChar, i + 1, g), g)
        ELSE IF ch = "\\" THEN ParseEscape(p, i, g, names)
        ELSE Quantified(p, Ok(Lit(ch), i + 1, g), g)

\* The terms from i to the next "|" or ")" or the end.
ParseAlternative(p, i, g, names, acc) ==
    IF i > Len(p) \/ p[i] \in {"|", ")"}
    THEN Ok([kind |-> "seq", nodes |-> acc], i, g)
    ELSE LET Term(t) ==
                 IF ~t.ok THEN Fail
                 ELSE ParseAlternative(p, t.i, t.g, names, Append(acc, t.node))
         IN  Term(ParseTerm(p, i, g, names))

ParseDisjunction(p, i, g, names) ==
    LET Either(a, d) ==
            IF ~d.ok THEN Fail
            ELSE Ok([kind |-> "alt", left |-> a.node, right |-> d.node], d.i, d.g)
        Alternative(a) ==
            IF ~a.ok THEN Fail
            ELSE IF ~(a.i <= Len(p) /\ p[a.i] = "|") THEN a
            ELSE Either(a, ParseDisjunction(p, a.i + 1, a.g, names))
    IN  Alternative(ParseAlternative(p, i, g, names, <<>>))

\* new RegExp(pattern, 'g'): the compiled pattern, or ok = FALSE where the
\* constructor throws a SyntaxError.
Compile(p) ==
    LET names == ScanGroups(p, 1, FALSE, <<>>)
        Pattern(d) == [ok |-> d.ok /\ d.i = Len(p) + 1, node |-> d.node, names |-> names]
    IN  Pattern(ParseDisjunction(p, 1, 0, names))

\* new RegExp(placeholder, 'g')
RegExp(key) == Compile(Placeholder(key))

RegExpValid(key) == RegExp(key).ok

\* --- the matcher
\* A state of the matcher: the position and the captures, each <<>> or
\* <<start, end>> (end not included).  The result of matching a node is the
\* list of the states it can end in, the one that backtracking finds first
\* at the head.
RECURSIVE Match(_, _, _, _)
RECURSIVE MatchSeq(_, _, _, _, _)
RECURSIVE MatchEach(_, _, _, _)
RECURSIVE MatchRep(_, _, _, _, _, _)
RECURSIVE MatchRepEach(_, _, _, _, _, _)

\* The lists of states of parts one after the other, without the later
\* copies of a state: the matcher goes on from a state the same way each
\* time, so a copy that comes later in the order of backtracking never
\* decides a match.
Distinct(parts) ==
    LET all == UNION {{<<k, j>> : j \in 1..Len(parts[k])} : k \in 1..Len(parts)}
        Before(a, b) == a[1] < b[1] \/ (a[1] = b[1] /\ a[2] < b[2])
        keep == {a \in all : \A b \in all : Before(b, a) => parts[b[1]][b[2]] # parts[a[1]][a[2]]}
    IN  SubSeq([n \in 1..Cardinality(keep) |->
                   LET a == CHOOSE c \in keep : Cardinality({b \in keep : Before(b, c)}) = n - 1
                   IN  parts[a[1]][a[2]]], 1, Cardinality(keep))

\* The results of a node from each state of a list, in the order of the list.
MatchEach(node, text, states, fwd) ==
    LET Results(parts) == IF parts = <<>> THEN <<>> ELSE Distinct(parts)
    IN  Results(SubSeq([k \in 1..Len(states) |-> Match(node, text, states[k], fwd)],
                       1, Len(states)))

\* The terms of an alternative one after the other, from the k-th on; read
\* backwards inside a lookbehind.
MatchSeq(nodes, k, text, states, fwd) ==
    LET Rest(next) ==
            IF next = <<>> THEN <<>>
            ELSE MatchSeq(nodes, IF fwd THEN k + 1 ELSE k - 1, text, next, fwd)
    IN  IF k < 1 \/ k > Len(nodes) THEN states
        ELSE Rest(MatchEach(nodes[k], text, states, fwd))

MatchRepEach(rep, min, max, text, states, fwd) ==
    LET Results(parts) == IF parts = <<>> THEN <<>> ELSE Distinct(parts)
    IN  Results(SubSeq([k \in 1..Len(states) |->
                           MatchRep(rep, min, max, text, states[k], fwd)], 1, Len(states)))

\* A quantified atom that is one character wide: the run of characters it
\* can take from st, the longest first when greedy.
MatchRun(rep, text, st, fwd) ==
    LET Takes(n) == \A k \in 1..n :
                       IF fwd THEN st.i + k - 1 <= Len(text)
                                   /\ CharMatches(rep.node, text[st.i + k - 1])
                       ELSE st.i - k >= 1 /\ CharMatches(rep.node, text[st.i - k])
        limit == IF rep.max = -1 \/ rep.max > Len(text) THEN Len(text) ELSE rep.max
        counts == {n \in rep.min..limit : Takes(n)}
        size == Cardinality(counts)
    IN  SubSeq([k \in 1..size |->
                   LET n == IF rep.greedy THEN rep.min + size - k ELSE rep.min + k - 1
                   IN  [st EXCEPT !.i = IF fwd THEN st.i + n ELSE st.i - n]], 1, size)

\* A quantified atom with min and max repetitions still to go.  Each
\* repetition starts with the captures of the atom cleared; once min is
\* reached a repetition that takes no character is not tried again.
MatchRep(rep, min, max, text, st, fwd) ==
    LET cleared == [st EXCEPT !.caps = SubSeq([k \in 1..Len(st.caps) |->
                        IF k >= rep.first /\ k <= rep.last THEN <<>> ELSE st.caps[k]],
                        1, Len(st.caps))]
        once == SelectSeq(Match(rep.node, text, cleared, fwd),
                          LAMBDA s : min > 0 \/ s.i # st.i)
        Repeated(more) ==
            IF min > 0 THEN more
            ELSE IF more = <<>> THEN <<st>>
            ELSE IF rep.greedy THEN Distinct(<<more, <<st>>>>)
            ELSE Distinct(<<<<st>>, more>>)
    IN  IF max = 0 THEN <<st>>
        ELSE Repeated(MatchRepEach(rep, IF min = 0 THEN 0 ELSE min - 1,
                                   IF max = -1 THEN -1 ELSE max - 1, text, once, fwd))

Match(node, text, st, fwd) ==
    IF node.kind \in {"lit", "any", "class"}
    THEN IF fwd
         THEN IF st.i <= Len(text) /\ CharMatches(node, text[st.i])
              THEN <<[st EXCEPT !.i = st.i + 1]>> ELSE <<>>
         ELSE IF st.i > 1 /\ CharMatches(node, text[st.i - 1])
              THEN <<[st EXCEPT !.i = st.i - 1]>> ELSE <<>>
    ELSE IF node.kind = "seq"
    THEN MatchSeq(node.nodes, IF fwd THEN 1 ELSE Len(node.nodes), text, <<st>>, fwd)
    ELSE IF node.kind = "alt"
    THEN LET Either(left, right) ==
                 IF left = <<>> THEN right
                 ELSE IF right = <<>> THEN left
                 ELSE Distinct(<<left, right>>)
         IN  Either(Match(node.left, text, st, fwd), Match(node.right, text, st, fwd))
    ELSE IF node.kind = "group"
    THEN LET Captures(inner) ==
                 IF node.index = 0 THEN inner
                 ELSE SubSeq([k \in 1..Len(inner) |->
                                [inner[k] EXCEPT !.caps[node.index] =
                                    IF fwd THEN <<st.i, inner[k].i>>
                                    ELSE <<inner[k].i, st.i>>]],
                             1, Len(inner))
         IN  Captures(Match(node.node, text, st, fwd))
    ELSE IF node.kind = "rep"
    THEN IF node.node.kind \in {"lit", "any", "class"} THEN MatchRun(node, text, st, fwd)
         ELSE MatchRep(node, node.min, node.max, text, st, fwd)
    ELSE IF node.kind = "look"
    THEN LET Looked(inner) ==
                 IF node.negated THEN (IF inner = <<>> THEN <<st>> ELSE <<>>)
                 ELSE IF inner = <<>> THEN <<>>
                 ELSE <<[st EXCEPT !.caps = inner[1].caps]>>
         IN  Looked(Match(node.node, text, st, node.ahead))
    ELSE IF node.kind = "backref"
    THEN LET cap == st.caps[node.index]
             n == IF cap = <<>> THEN 0 ELSE cap[2] - cap[1]
             s == IF cap = <<>> THEN <<>> ELSE SubSeq(text, cap[1], cap[2] - 1)
         IN  IF fwd
             THEN IF st.i + n - 1 <= Len(text) /\ SubSeq(text, st.i, st.i + n - 1) = s
                  THEN <<[st EXCEPT !.i = st.i + n]>> ELSE <<>>
             ELSE IF st.i - n >= 1 /\ SubSeq(text, st.i - n, st.i - 1) = s
                  THEN <<[st EXCEPT !.i = st.i - n]>> ELSE <<>>
    ELSE IF node.kind = "bol"
    THEN IF st.i = 1 THEN <<st>> ELSE <<>>
    ELSE IF node.kind = "eol"
    THEN IF st.i = Len(text) + 1 THEN <<st>> ELSE <<>>
    ELSE LET a == st.i > 1 /\ IsWordChar(text[st.i - 1])
             b == st.i <= Len(text) /\ IsWordChar(text[st.i])
         IN  IF (a # b) # node.negated THEN <<st>> ELSE <<>>

NoMatch == [found |-> FALSE, s |-> 0, e |-> 0, caps |-> <<>>]

\* The match of the pattern that starts at i, if there is one.
MatchAt(text, i, re) ==
    LET First(m) ==
            IF m = <<>> THEN NoMatch
            ELSE [found |-> TRUE, s |-> i, e |-> m[1].i, caps |-> m[1].caps]
    IN  First(Match(re.node, text,
                    [i |-> i,
                     caps |-> SubSeq([k \in 1..Len(re.names) |-> <<>>], 1, Len(re.names))],
                    TRUE))

\* re.exec(text) with lastIndex = i: the first match that starts at i or
\* after it.
Exec(text, i, re) ==
    LET Earliest(starts) ==
            IF starts = {} THEN NoMatch
            ELSE MatchAt(text, CHOOSE s \in starts : \A t \in starts : s <= t, re)
    IN  Earliest({s \in i..(Len(text) + 1) : MatchAt(text, s, re).found})

Captured(text, cap) == IF cap = <<>> THEN <<>> ELSE SubSeq(text, cap[1], cap[2] - 1)

\* The replacement text with its patterns expanded for the match m: "$$" is
\* a dollar sign, "$&" the matched text, a dollar sign with a grave accent
\* the text before the match, a dollar sign with an apostrophe the text
\* after it, "$n" and "$nn" the text of a group of the pattern and "$<name>"
\* that of a named group.
RECURSIVE Expand(_, _, _, _)
Expand(rep, text, m, re) ==
    LET rest(k) == Expand(SubSeq(rep, k, Len(rep)), text, m, re)
        groups == Len(re.names)
        two == Len(rep) >= 3 /\ IsDigit(rep[2]) /\ IsDigit(rep[3])
        nn == IF two THEN 10 * DigitValue(rep[2]) + DigitValue(rep[3]) ELSE 0
        n == IF Len(rep) >= 2 /\ IsDigit(rep[2]) THEN DigitValue(rep[2]) ELSE 0
        close == FindChar(rep, 3, ">")
        name == SubSeq([k \in 1..(close - 3) |-> Code(rep[k + 2])], 1, close - 3)
    IN  IF rep = <<>> THEN <<>>
        ELSE IF rep[1] # "$" \/ Len(rep) = 1 THEN <<rep[1]>> \o rest(2)
        ELSE IF rep[2] = "$" THEN <<"$">> \o rest(3)
        ELSE IF rep[2] = "&" THEN SubSeq(text, m.s, m.e - 1) \o rest(3)
        ELSE IF rep[2] = Grave THEN SubSeq(text, 1, m.s - 1) \o rest(3)
        ELSE IF rep[2] = Apostrophe THEN SubSeq(text, m.e, Len(text)) \o rest(3)
        ELSE IF two /\ nn <= groups
             THEN IF nn >= 1 THEN Captured(text, m.caps[nn]) \o rest(4)
                  ELSE <<"$", rep[2], rep[3]>> \o rest(4)
        ELSE IF IsDigit(rep[2])
             THEN IF n >= 1 /\ n <= groups THEN Captured(text, m.caps[n]) \o rest(3)
                  ELSE <<"$", rep[2]>> \o rest(3)
        ELSE IF rep[2] = "<" /\ HasNamed(re.names) /\ close # 0
             THEN (IF GroupIndex(re.names, name) = 0 THEN <<>>
                   ELSE Captured(text, m.caps[GroupIndex(re.names, name)]))
                     \o rest(close + 1)
        ELSE <<"$">> \o rest(2)

\* text.replace(re, rep) with the g flag: the matches from left to right,
\* each search starting where the match before ended, one character further
\* after an empty match.  src is the first character not yet copied.
RECURSIVE ReplaceFrom(_, _, _, _, _)
ReplaceFrom(text, src, i, re, rep) ==
    LET Replaced(m) ==
            IF ~m.found THEN SubSeq(text, src, Len(text))
            ELSE SubSeq(text, src, m.s - 1) \o Expand(rep, text, m, re)
                    \o ReplaceFrom(text, m.e, IF m.e = m.s THEN m.e + 1 ELSE m.e, re, rep)
    IN  Replaced(Exec(text, i, re))

Replace(text, re, rep) == ReplaceFrom(text, 1, 1, re, rep)

\* A scalar of certificate_data: a string or a number.
StrVal(s) == [t |-> "str", s |-> s, n |-> 0]
NumVal(n) == [t |-> "num", s |-> <<>>, n |-> n]

\* String(value)
String(value) == IF value.t = "num" THEN NatToText(value.n) ELSE value.s

\* ------------------------------------------------------------- JSON objects
RECURSIVE BytesLess(_, _)
BytesLess(k1, k2) ==
    IF k2 = <<>> THEN FALSE
    ELSE IF k1 = <<>> THEN TRUE
    ELSE IF k1[1] # k2[1] THEN Code(k1[1]) < Code(k2[1])
    ELSE BytesLess(Tail(k1), Tail(k2))

\* jsonb keeps the keys of an object sorted by length, then by bytes.
JsonbLess(k1, k2) ==
    \/ Len(k1) < Len(k2)
    \/ Len(k1) = Len(k2) /\ BytesLess(k1, k2)

\* The largest array index, 2^32 - 2.
MaxIndex == <<"4", "2", "9", "4", "9", "6", "7", "2", "9", "4">>

\* A key that is a canonical array index: "0", "7", "12", not "07", and not
\* above 4294967294.
IsIndexKey(k) ==
    /\ AllDigits(k)
    /\ Len(k) = 1 \/ k[1] # "0"
    /\ \/ Len(k) < Len(MaxIndex)
       \/ Len(k) = Len(MaxIndex) /\ ~BytesLess(MaxIndex, k)

\* Object.entries lists the index keys first, in numeric order, then the
\* other keys in the order of the JSON text.
EntriesLess(k1, k2) ==
    IF IsIndexKey(k1) /\ IsIndexKey(k2) THEN JsonbLess(k1, k2)
    ELSE IF IsIndexKey(k1) THEN TRUE
    ELSE IF IsIndexKey(k2) THEN FALSE
    ELSE JsonbLess(k1, k2)

RECURSIVE InsertEntry(_, _)
InsertEntry(e, entries) ==
    IF entries = <<>> THEN <<e>>
    ELSE IF EntriesLess(e.key, entries[1].key) THEN <<e>> \o entries
    ELSE <<entries[1]>> \o InsertEntry(e, Tail(entries))

\* The entries of an object written as jsonb and read back.
RECURSIVE ObjectEntries(_)
ObjectEntries(entries) ==
    IF entries = <<>> THEN <<>>
    ELSE InsertEntry(entries[1], ObjectEntries(Tail(entries)))

\* ------------------------------------------------------------------ inputs
Range(seq) == {seq[i] : i \in 1..Len(seq)}

\* The key an assignment to a plain object does not create.
__proto__ == <<"_", "_", "p", "r", "o", "t", "o", "_", "_">>

\* The templates users have created before: text and declared placeholders.  A
\* placeholder name is free text, and a body can have more than one line.
Templates ==
    << [template_content |-> <<"{", "{", "a", "}", "}", " ", "{", "{", "b", "}", "}">>,
        placeholders |-> << <<"b">>, <<"a">> >>],
       [template_content |-> <<"{", "{", "(", "}", "}">>,
        placeholders |-> << <<"(">> >>],
       [template_content |-> <<"{", "{", "a", "}", "}", "-", "{", "{", "a", "}", "}">>,
        placeholders |-> << <<"a">> >>],
       [template_content |-> <<"{", "{", "1", "}", "}">>,
        placeholders |-> << <<"1">> >>],
       [template_content |-> <<"{", "{", "a", ".", "c", "}", "}",
                               "{", "{", "a", "b", "c", "}", "}">>,
        placeholders |-> << <<"a", ".", "c">> >>],
       [template_content |-> <<"{", "{", "a", ".", "c", "}", "}", " ",
                               "{", "{", "a", "b", "c", "}", "}">>,
        placeholders |-> << <<"a", ".", "c">>, <<"a", "b", "c">> >>],
       [template_content |-> <<"{", "{", "a", ".", "c", "}", "}", "\n",
                               "{", "{", "a", "\n", "c", "}", "}">>,
        placeholders |-> << <<"a", ".", "c">> >>],
       [template_content |-> <<"{", "{", "a", "{", "2", "}", "}", "}", " ",
                               "{", "{", "a", "a", "}", "}">>,
        placeholders |-> << <<"a", "{", "2", "}">> >>],
       [template_content |-> <<"{", "{", "$", "}", "}">>,
        placeholders |-> << <<"$">> >>],
       [template_content |-> <<"{", "{", "(", "a", ")", "}", "}", " ",
                               "{", "{", "a", "}", "}">>,
        placeholders |-> << <<"(", "a", ")">> >>],
       [template_content |-> <<"{", "{", "$", "{", "1", "}", "}", "}">>,
        placeholders |-> << <<"$", "{", "1", "}">> >>],
       [template_content |-> <<"{", "{", "_", "_", "p", "r", "o", "t", "o", "_", "_", "}", "}">>,
        placeholders |-> << __proto__ >>],
       [template_content |-> <<"{", "{", "x", "}", "}", " ", "{", "{", "b", "}", "}">>,
        placeholders |-> << <<"b">>,
                            <<"(", "?", "<", "\\", "u", "0", "0", "6", "1", ">", "x", ")">> >>],
       [template_content |-> <<"{", "{", "a", "}", "}">>,
        placeholders |-> << <<"a", "{", "2", "1", "4", "7", "4", "8", "3", "6", "4", "8", ",",
                              "2", "1", "4", "7", "4", "8", "3", "6", "4", "7", "}">> >>] >>

TemplateIds == 1..Len(Templates)

\* What a user submits on the Create Template page: the body typed into the
\* form and the placeholders listed on the page.  The list is kept apart from
\* the body, and every entry of it can be removed.
TemplateForms ==
    { [template_content |-> <<"{", "{", "x", "}", "}", " ", "{", "{", "y", "}", "}">>,
       placeholders |-> << <<"x">>, <<"y">> >>],
      [template_content |-> <<"{", "{", "x", "}", "}">>,
       placeholders |-> <<>>] }

\* The templates of the batches that several records go through.
SeqTemplates == {1, 2}

\* The column each placeholder of a template is mapped to.
PlaceholderMapping(placeholders) ==
    [p \in Range(placeholders) |->
        IF p \in {<<"b">>, <<"a", "b", "c">>} THEN "s" ELSE "n"]

\* The spreadsheets a user uploads: rows of column -> cell, empty cells absent.
ExcelFiles ==
    { << [n |-> StrVal(<<"x">>), s |-> NumVal(7)],
         [n |-> StrVal(<<"y">>)],
         [n |-> StrVal(<<"z">>), s |-> NumVal(95)] >>,
      << [n |-> StrVal(<<"x">>), s |-> NumVal(7)] >> }

\* The spreadsheet of three rows, and the one of one row.
SeqFiles == {excelData \in ExcelFiles : Len(excelData) = 3}

ParFiles == {excelData \in ExcelFiles : Len(excelData) = 1}

\* One-row spreadsheets with the cells a substitution has to cope with: a
\* number, a missing cell, text with dollar signs, and no mapped cell at all.
RenderFiles ==
    { << [n |-> StrVal(<<"x">>), s |-> NumVal(95)] >>,
      << [n |-> StrVal(<<"y">>)] >>,
      << [n |-> StrVal(<<"$", "&">>), s |-> NumVal(7)] >>,
      << [n |-> StrVal(<<"$", "$">>)] >>,
      << [n |-> StrVal(<<"$", Apostrophe>>)] >>,
      << [o |-> StrVal(<<"x">>)] >> }

\* What req.json() throws on a body that is not JSON: the message of
\* JSON.parse up to the position, token or text it goes on with, by the kind
\* of body.  There is a message for a character no JSON value can start or
\* go on with (hello), for text that stops where a value is due (nothing,
\* {"batchId":), for a digit after a leading zero (01), for a quote in a
\* word, for a name that is due in an object ({batchId:1}), for an array
\* element or a property value with no comma or bracket after it ([1 2],
\* {"a":1 "b":2}), for a comma with no name after it ({"a":1,}), for a name
\* with no colon after it ({"batchId" 1}), for a number whose exponent,
\* fraction or digits are missing (1e, 1., -), for a string that is not
\* closed or holds a control character or a bad escape ("abc, "\u12", "\x"),
\* for the words undefined, NaN and Infinity and the text [object Object],
\* and for text after a JSON value ({"batchId":1}x).
JsonParseMessage ==
    [text |-> "Unexpected token",
     empty |-> "Unexpected end of JSON input",
     number |-> "Unexpected number in JSON",
     quote |-> "Unexpected string in JSON",
     name |-> "Expected property name or '}' in JSON",
     element |-> "Expected ',' or ']' after array element in JSON",
     value |-> "Expected ',' or '}' after property value in JSON",
     comma |-> "Expected double-quoted property name in JSON",
     colon |-> "Expected ':' after property name in JSON",
     exponent |-> "Exponent part is missing a number in JSON",
     fraction |-> "Unterminated fractional number in JSON",
     minus |-> "No number after minus sign in JSON",
     string |-> "Unterminated string in JSON",
     control |-> "Bad control character in string literal in JSON",
     unicode |-> "Bad Unicode escape in JSON",
     escape |-> "Bad escaped character in JSON",
     undefined |-> "\"undefined\" is not valid JSON",
     NaN |-> "\"NaN\" is not valid JSON",
     Infinity |-> "\"Infinity\" is not valid JSON",
     objectObject |-> "\"[object Object]\" is not valid JSON",
     trailing |-> "Unexpected non-whitespace character after JSON"]

\* The bodies on which const { batchId } = await req.json() throws: text
\* that is not JSON, and the JSON null, which has no property to take.
BodyKinds == DOMAIN JsonParseMessage \cup {"null"}

\* The body of a request: a JSON object with the id of a batch as batchId
\* (kind object); JSON that gives no id to look a batch up by, as {}, 5, []
\* or {"batchId":"x"} (kind other: batchId is undefined or is no uuid); or
\* one of the kinds given on which reading the body throws.
Bodies(maxBatches, kinds) ==
    {[kind |-> "object", batchId |-> b] : b \in 1..maxBatches}
        \cup {[kind |-> k, batchId |-> 0] : k \in kinds \cup {"other"}}

\* ------------------------------------------------------------------- state
VARIABLES
    certificate_templates,  \* table: template id -> row
    certificate_batches,    \* table: batch id -> row
    certificates,           \* table: certificate id -> row
    issued,                 \* ids given out so far, per table; none is given twice
    storage,                \* bucket 'certificates': file name -> content
    page,                   \* GenerateCertificates page: the submission in progress
    run,                    \* per invocation of the edge function: its locals
    obs,                    \* per invocation: what it has done so far (history)
    invocations,            \* number of requests received
    now                     \* the store's clock

vars == <<certificate_templates, certificate_batches, certificates, issued, storage, page,
          run, obs, invocations, now>>

stores == <<certificate_templates, certificate_batches, certificates, issued, storage, now>>

\* The rows of a table that have one of the ids.
Rows(table, ids) == [id \in ids |-> table[id]]

\* The ids of a set in ascending order.
Ascending(ids) ==
    SubSeq([n \in 1..Cardinality(ids) |->
               CHOOSE id \in ids : Cardinality({other \in ids : other < id}) = n - 1],
           1, Cardinality(ids))

\* The loaded batch: the columns of the row that matter here and the body
\* of the joined template.
NoBatch == [id |-> 0, template_id |-> 0, status |-> "none", generated_certificates |-> 0,
            template_content |-> NoText]

NoResponse == [status |-> 0, success |-> FALSE, processed |-> 0, total |-> 0,
               batchId |-> 0, error |-> NoMessage]

IdleRun == [pc |-> "idle", method |-> "none", body |-> [kind |-> "none", batchId |-> 0],
            batchId |-> 0, batch |-> NoBatch,
            certificates |-> <<>>, i |-> 0, processedCertificates |-> <<>>,
            error |-> NoMessage, response |-> NoResponse]

\* attempted: ids whose loop iteration began; uploaded: ids whose upload was
\* stored; thrown: errors caught per record; written: certificate updates that
\* changed a row; batchWrites: batch updates that changed a row.
NoObs == [attempted |-> <<>>, uploaded |-> <<>>, thrown |-> <<>>, written |-> <<>>,
          batchWrites |-> 0]

\* The page between two submissions.
NoPage == [pc |-> "idle", batch |-> 0, selectedTemplate |-> 0, excelData |-> <<>>]

Init ==
    /\ certificate_templates = [t \in TemplateIds |-> Templates[t]]
    /\ certificate_batches = <<>>
    /\ certificates = <<>>
    /\ issued = [certificate_templates |-> Len(Templates), certificate_batches |-> 0,
                 certificates |-> 0]
    /\ storage = <<>>
    /\ page = NoPage
    /\ run = [r \in Runs |-> IdleRun]
    /\ obs = [r \in Runs |-> NoObs]
    /\ invocations = 0
    /\ now = 0

\* ------------------------------------------------- GenerateCertificates page
\* certificateData[placeholder] = value on a plain object: a key the object
\* has keeps its place and gets the value, a new key goes to the end, and the
\* key __proto__ with a cell as its value creates nothing.
Assign(certificateData, placeholder, value) ==
    IF placeholder = __proto__ THEN certificateData
    ELSE IF \E k \in 1..Len(certificateData) : certificateData[k].key = placeholder
    THEN SubSeq([k \in 1..Len(certificateData) |->
                    IF certificateData[k].key = placeholder
                    THEN [key |-> placeholder, value |-> value]
                    ELSE certificateData[k]], 1, Len(certificateData))
    ELSE Append(certificateData, [key |-> placeholder, value |-> value])

\* certificateData of one spreadsheet row: a placeholder gets the cell of its
\* mapped column when the row has that cell.
RECURSIVE MapRow(_, _, _)
MapRow(placeholders, mapping, row) ==
    IF placeholders = <<>> THEN <<>>
    ELSE LET placeholder == placeholders[Len(placeholders)]
             Mapped(certificateData) ==
                 IF mapping[placeholder] \in DOMAIN row
                 THEN Assign(certificateData, placeholder, row[mapping[placeholder]])
                 ELSE certificateData
         IN  Mapped(MapRow(SubSeq(placeholders, 1, Len(placeholders) - 1), mapping, row))

NewBatch_NoTotal(t, n) ==
    [template_id |-> t, total_certificates |-> 0, generated_certificates |-> 0,
     status |-> "pending", updated_at |-> now]

NewBatch(t, n) ==
    [template_id |-> t, total_certificates |-> n, generated_certificates |-> 0,
     status |-> "pending", updated_at |-> now]

\* The record of one spreadsheet row, for the template the page has selected.
NewCertificate(b, selectedTemplate, row) ==
    [batch_id |-> b,
     certificate_data |-> ObjectEntries(MapRow(selectedTemplate.placeholders,
                                               PlaceholderMapping(selectedTemplate.placeholders),
                                               row)),
     certificate_url |-> NoText, status |-> "pending", error_message |-> NoMessage]

\* canGenerate(): a template is selected, the spreadsheet has rows and every
\* placeholder is mapped.
canGenerate(selectedTemplate, excelData) ==
    /\ Len(excelData) > 0
    /\ \A i \in 1..Len(selectedTemplate.placeholders) :
          selectedTemplate.placeholders[i]
              \in DOMAIN PlaceholderMapping(selectedTemplate.placeholders)

\* onSubmit up to the return of the batch insert; t is the id of the selected
\* template.  The page works on the template as it loaded it, and no row of
\* certificate_templates is ever updated, so that is the row while the row is
\* there.  When the row is gone the insert is refused, whatever the page
\* holds; an error is reported to the user and the submission is over.
onSubmit(t, excelData, ok) ==
    /\ page.pc = "idle"
    /\ IF t \in DOMAIN certificate_templates
       THEN /\ canGenerate(certificate_templates[t], excelData)
            /\ IF ok
               THEN LET b == issued.certificate_batches + 1
                    IN  /\ certificate_batches' =
                              certificate_batches @@ (b :> NewBatch(t, Len(excelData)))
                        /\ issued' = [issued EXCEPT !.certificate_batches = b]
                        /\ page' = [pc |-> "certificates", batch |-> b,
                                    selectedTemplate |-> t, excelData |-> excelData]
               ELSE UNCHANGED <<certificate_batches, issued, page>>
       ELSE UNCHANGED <<certificate_batches, issued, page>>
    /\ UNCHANGED <<certificate_templates, certificates, storage, run, obs, invocations, now>>

\* The rest of onSubmit: insert one certificate per row.  The insert is
\* refused when the batch is no longer there; an error is reported to the
\* user and nothing is undone.  While the batch is there, so is the row of
\* its template.
InsertCertificates(ok) ==
    /\ page.pc = "certificates"
    /\ page' = NoPage
    /\ IF ok /\ page.batch \in DOMAIN certificate_batches
       THEN LET first == issued.certificates
                N == Len(page.excelData)
            IN  /\ certificates' = certificates @@
                      [id \in (first + 1)..(first + N) |->
                          NewCertificate(page.batch,
                                         certificate_templates[page.selectedTemplate],
                                         page.excelData[id - first])]
                /\ issued' = [issued EXCEPT !.certificates = first + N]
       ELSE UNCHANGED <<certificates, issued>>
    /\ UNCHANGED <<certificate_templates, certificate_batches, storage, run, obs,
                   invocations, now>>

\* ------------------------------------------------------ Create Template page
\* onSubmit of the Create Template page, called once the form has passed its
\* schema (a body of at least one character): insert a row with the body of
\* the form and the placeholders listed on the page.  The store gives the row
\* an id that no row had before.  On an error the page reports it and nothing
\* is changed.
CreateTemplate(data, placeholders, ok) ==
    /\ data.template_content # <<>>
    /\ IF ok
       THEN LET id == issued.certificate_templates + 1
            IN  /\ certificate_templates' = certificate_templates @@
                      (id :> [template_content |-> data.template_content,
                              placeholders |-> placeholders])
                /\ issued' = [issued EXCEPT !.certificate_templates = id]
       ELSE UNCHANGED <<certificate_templates, issued>>
    /\ UNCHANGED <<certificate_batches, certificates, storage, page, run, obs, invocations,
                   now>>

\* ------------------------------------------------------------ Templates page
\* deleteTemplate: delete the row of the template; its batches and their
\* certificates go with it (ON DELETE CASCADE).  What was stored for the
\* certificates stays.  On an error the page reports it.
deleteTemplate(templateId, ok) ==
    /\ templateId \in DOMAIN certificate_templates
    /\ LET batches == {b \in DOMAIN certificate_batches :
                          certificate_batches[b].template_id = templateId}
       IN  IF ok
           THEN /\ certificate_templates' =
                      Rows(certificate_templates, DOMAIN certificate_templates \ {templateId})
                /\ certificate_batches' =
                      Rows(certificate_batches, DOMAIN certificate_batches \ batches)
                /\ certificates' =
                      Rows(certificates, {c \in DOMAIN certificates :
                                             certificates[c].batch_id \notin batches})
           ELSE UNCHANGED <<certificate_templates, certificate_batches, certificates>>
    /\ UNCHANGED <<issued, storage, page, run, obs, invocations, now>>

\* ------------------------------------------------- rendering a certificate
\* One step of the forEach over Object.entries(certificate_data).
RECURSIVE RenderEntries(_, _)
RenderEntries(html, entries) ==
    IF entries = <<>> THEN html
    ELSE RenderEntries(Replace(html, RegExp(entries[1].key), String(entries[1].value)),
                       Tail(entries))

\* The forEach throws when it reaches a key whose RegExp does not compile.
RECURSIVE ForEachThrows(_)
ForEachThrows(entries) ==
    IF entries = <<>> THEN FALSE
    ELSE IF RegExpValid(entries[1].key) THEN ForEachThrows(Tail(entries))
    ELSE TRUE

\* The template bodies and the certificate_data the page can write for them.
RenderInputs ==
    {<<template.template_content, NewCertificate(0, template, row).certificate_data>> :
        template \in Range(Templates) \cup TemplateForms,
        row \in UNION {Range(excelData) : excelData \in ExcelFiles \cup RenderFiles}}

\* The outcome of the forEach for each of them, worked out once.
Rendering ==
    [input \in RenderInputs |->
        IF ForEachThrows(input[2])
        THEN [throws |-> TRUE, htmlContent |-> NoText]
        ELSE [throws |-> FALSE, htmlContent |-> RenderEntries(input[1], input[2])]] @@ <<>>

RenderThrows(template_content, certificate_data) ==
    IF <<template_content, certificate_data>> \in DOMAIN Rendering
    THEN Rendering[<<template_content, certificate_data>>].throws
    ELSE ForEachThrows(certificate_data)

\* htmlContent after the substitution of a record's certificate_data.
Render(template_content, certificate_data) ==
    IF <<template_content, certificate_data>> \in DOMAIN Rendering
    THEN Rendering[<<template_content, certificate_data>>].htmlContent
    ELSE RenderEntries(template_content, certificate_data)

\* ------------------------------------------- generate-certificates function
Active(r) == run[r].pc \notin {"idle", "done"}

Local(r, f) == [run EXCEPT ![r] = f]

ErrorResponse(message) == [NoResponse EXCEPT !.status = 500, !.error = message]

SuccessResponse(processed, total, batchId) ==
    [NoResponse EXCEPT !.status = 200, !.success = TRUE, !.processed = processed,
                       !.total = total, !.batchId = batchId]

Throw_NoResponse(r, message) ==
    run' = Local(r, [run[r] EXCEPT !.pc = "thrown", !.error = message])

\* The outer catch: answer 500 with the error's message.
Throw(r, message) ==
    run' = Local(r, [run[r] EXCEPT !.pc = "done", !.response = ErrorResponse(message)])

\* What const { batchId } = await req.json() throws on a body: the message
\* of JSON.parse, or that of the destructuring of null.
BodyError(body) ==
    IF body.kind \in DOMAIN JsonParseMessage THEN JsonParseMessage[body.kind]
    ELSE "Cannot destructure property"

\* serve() up to await req.json(): an OPTIONS request is answered 'ok';
\* otherwise the handler waits for the body.  A request is served by the
\* first instance that is free.
Receive(r, method, body) ==
    /\ ~Active(r) /\ \A q \in Runs : q < r => Active(q)
    /\ invocations' = invocations + 1
    /\ obs' = [obs EXCEPT ![r] = NoObs]
    /\ IF method = "OPTIONS"
       THEN run' = Local(r, [IdleRun EXCEPT !.pc = "done", !.method = method,
                                            !.response = [NoResponse EXCEPT !.status = 200]])
       ELSE run' = Local(r, [IdleRun EXCEPT !.pc = "body", !.method = method,
                                            !.body = body])
    /\ UNCHANGED <<stores, page>>

\* The body has come: batchId is taken from it, and is undefined or no uuid
\* (0 here) when the JSON gives none.  This is inside the try, so what
\* reading the body throws is answered by the outer catch.
ReadBody(r) ==
    /\ run[r].pc = "body"
    /\ IF run[r].body.kind \in BodyKinds
       THEN Throw(r, BodyError(run[r].body))
       ELSE run' = Local(r, [run[r] EXCEPT !.pc = "lookup", !.batchId = run[r].body.batchId])
    /\ UNCHANGED <<stores, page, obs, invocations>>

LookupBatch_Processing(r, ok) ==
    /\ run[r].pc = "lookup"
    /\ LET id == run[r].batchId
       IN  IF id = 0
           THEN Throw(r, "invalid input syntax for type uuid")
           ELSE IF id \notin DOMAIN certificate_batches
           THEN Throw(r, "no rows returned")
           ELSE IF ~ok
           THEN Throw(r, "batch query failed")
           ELSE LET row == certificate_batches[id]
                    batch == [id |-> id, template_id |-> row.template_id,
                              status |-> row.status,
                              generated_certificates |-> row.generated_certificates,
                              template_content |->
                                  certificate_templates[row.template_id].template_content]
                IN  run' = Local(r, [run[r] EXCEPT !.pc = "list", !.batch = batch])
    /\ certificate_batches' =
          IF run[r].batchId \in DOMAIN certificate_batches /\ ok
          THEN [certificate_batches EXCEPT ![run[r].batchId].status = "processing"]
          ELSE certificate_batches
    /\ UNCHANGED <<certificate_templates, certificates, issued, storage, now, page, obs,
                   invocations>>

LookupBatch_Continue(r, ok) ==
    /\ run[r].pc = "lookup"
    /\ LET id == run[r].batchId
       IN  IF id \notin DOMAIN certificate_batches
           THEN run' = Local(r, [run[r] EXCEPT !.pc = "list"])
           ELSE IF ~ok
           THEN Throw(r, "batch query failed")
           ELSE LET row == certificate_batches[id]
                    batch == [id |-> id, template_id |-> row.template_id,
                              status |-> row.status,
                              generated_certificates |-> row.generated_certificates,
                              template_content |->
                                  certificate_templates[row.template_id].template_content]
                IN  run' = Local(r, [run[r] EXCEPT !.pc = "list", !.batch = batch])
    /\ UNCHANGED <<stores, page, obs, invocations>>

\* The batch with its template joined.  The query is an error when batchId
\* is no uuid and, by .single(), when no row has the id.  A batch row always
\* has its template: template_id is NOT NULL and a template's batches are
\* deleted with it.
LookupBatch(r, ok) ==
    /\ run[r].pc = "lookup"
    /\ LET id == run[r].batchId
       IN  IF id = 0
           THEN Throw(r, "invalid input syntax for type uuid")
           ELSE IF id \notin DOMAIN certificate_batches
           THEN Throw(r, "no rows returned")
           ELSE IF ~ok
           THEN Throw(r, "batch query failed")
           ELSE LET row == certificate_batches[id]
                    batch == [id |-> id, template_id |-> row.template_id,
                              status |-> row.status,
                              generated_certificates |-> row.generated_certificates,
                              template_content |->
                                  certificate_templates[row.template_id].template_content]
                IN  run' = Local(r, [run[r] EXCEPT !.pc = "list", !.batch = batch])
    /\ UNCHANGED <<stores, page, obs, invocations>>

\* A row of certificates as a query returns it.
Selected(id) ==
    [id |-> id, batch_id |-> certificates[id].batch_id,
     status |-> certificates[id].status,
     certificate_data |-> certificates[id].certificate_data]

PendingCertificates_AnyStatus(batchId) ==
    LET ids == Ascending({id \in DOMAIN certificates : certificates[id].batch_id = batchId})
    IN  SubSeq([k \in 1..Len(ids) |-> Selected(ids[k])], 1, Len(ids))

PendingCertificates_AnyBatch(batchId) ==
    LET ids == Ascending({id \in DOMAIN certificates : certificates[id].status = "pending"})
    IN  SubSeq([k \in 1..Len(ids) |-> Selected(ids[k])], 1, Len(ids))

\* from('certificates').select('*').eq('batch_id', batchId).eq('status', 'pending')
PendingCertificates(batchId) ==
    LET ids == Ascending({id \in DOMAIN certificates :
                             /\ certificates[id].batch_id = batchId
                             /\ certificates[id].status = "pending"})
    IN  SubSeq([k \in 1..Len(ids) |-> Selected(ids[k])], 1, Len(ids))

ListCertificates_ThrowOnEmpty(r, ok) ==
    /\ run[r].pc = "list"
    /\ IF ~ok
       THEN Throw(r, "certificates query failed")
       ELSE LET list == PendingCertificates(run[r].batchId)
            IN  IF list = <<>>
                THEN Throw(r, "no pending certificates")
                ELSE run' = Local(r, [run[r] EXCEPT !.pc = "upload",
                                                    !.certificates = list, !.i = 1])
    /\ UNCHANGED <<stores, page, obs, invocations>>

\* After the pending query the loop starts; with no certificate it is skipped.
ListCertificates(r, ok) ==
    /\ run[r].pc = "list"
    /\ IF ~ok
       THEN Throw(r, "certificates query failed")
       ELSE LET list == PendingCertificates(run[r].batchId)
            IN  run' = Local(r, [run[r] EXCEPT
                        !.pc = IF list = <<>> THEN "finalize" ELSE "upload",
                        !.certificates = list, !.i = 1])
    /\ UNCHANGED <<stores, page, obs, invocations>>

\* `certificate_${certificate.id}.html`
certificateFileName(id) == <<"certificate_", id, ".html">>

\* storage.from('certificates').getPublicUrl(name)
getPublicUrl(name) == <<"/storage/v1/object/public/certificates/">> \o name

\* The next iteration of the for loop, or the batch update after the last.
NextCertificate(r, locals) ==
    [locals EXCEPT !.i = run[r].i + 1,
                   !.pc = IF run[r].i = Len(run[r].certificates)
                          THEN "finalize" ELSE "upload"]

Catch_Rethrow(r, message) ==
    /\ Throw(r, message)
    /\ obs' = [obs EXCEPT
                 ![r].attempted = IF run[r].pc = "upload"
                                  THEN Append(@, run[r].certificates[run[r].i].id) ELSE @,
                 ![r].thrown = Append(@, [id |-> run[r].certificates[run[r].i].id,
                                          message |-> message])]

Catch_NoWait(r, message) ==
    /\ run' = Local(r, NextCertificate(r, run[r]))
    /\ obs' = [obs EXCEPT
                 ![r].attempted = IF run[r].pc = "upload"
                                  THEN Append(@, run[r].certificates[run[r].i].id) ELSE @,
                 ![r].thrown = Append(@, [id |-> run[r].certificates[run[r].i].id,
                                          message |-> message])]

\* The per-certificate catch: remember the error, then mark the record failed.
Catch(r, message) ==
    /\ run' = Local(r, [run[r] EXCEPT !.pc = "catch", !.error = message])
    /\ obs' = [obs EXCEPT
                 ![r].attempted = IF run[r].pc = "upload"
                                  THEN Append(@, run[r].certificates[run[r].i].id) ELSE @,
                 ![r].thrown = Append(@, [id |-> run[r].certificates[run[r].i].id,
                                          message |-> message])]

UploadCertificate_IgnoreError(r, ok) ==
    /\ run[r].pc = "upload"
    /\ LET certificate == run[r].certificates[run[r].i]
           name == certificateFileName(certificate.id)
       IN  IF RenderThrows(run[r].batch.template_content, certificate.certificate_data)
           THEN Catch(r, "Invalid regular expression") /\ UNCHANGED storage
           ELSE /\ storage' = IF name \in DOMAIN storage \/ ~ok THEN storage
                              ELSE storage @@
                                     (name :> Render(run[r].batch.template_content,
                                                     certificate.certificate_data))
                /\ run' = Local(r, [run[r] EXCEPT !.pc = "update"])
                /\ obs' = [obs EXCEPT ![r].attempted = Append(@, certificate.id),
                                      ![r].uploaded = Append(@, certificate.id)]
    /\ UNCHANGED <<certificate_templates, certificate_batches, certificates, issued, page,
                   invocations, now>>

\* One iteration up to the upload: render the html and store it under the
\* certificate's file name.  upload() does not overwrite an existing object.
UploadCertificate(r, ok) ==
    /\ run[r].pc = "upload"
    /\ LET certificate == run[r].certificates[run[r].i]
           name == certificateFileName(certificate.id)
       IN  IF RenderThrows(run[r].batch.template_content, certificate.certificate_data)
           THEN Catch(r, "Invalid regular expression") /\ UNCHANGED storage
           ELSE IF name \in DOMAIN storage
           THEN Catch(r, "The resource already exists") /\ UNCHANGED storage
           ELSE IF ~ok
           THEN Catch(r, "upload failed") /\ UNCHANGED storage
           ELSE /\ storage' = storage @@
                      (name :> Render(run[r].batch.template_content,
                                      certificate.certificate_data))
                /\ run' = Local(r, [run[r] EXCEPT !.pc = "update"])
                /\ obs' = [obs EXCEPT ![r].attempted = Append(@, certificate.id),
                                      ![r].uploaded = Append(@, certificate.id)]
    /\ UNCHANGED <<certificate_templates, certificate_batches, certificates, issued, page,
                   invocations, now>>

\* update({status: 'generated', certificate_url: publicUrl}).eq('id', id); an
\* update that finds no row with the id changes nothing and is no error.
UpdateCertificate(r, ok) ==
    /\ run[r].pc = "update"
    /\ LET id == run[r].certificates[run[r].i].id
       IN  IF ~ok
           THEN Catch(r, "certificate update failed") /\ UNCHANGED certificates
           ELSE /\ run' = Local(r, NextCertificate(r,
                      [run[r] EXCEPT !.processedCertificates = Append(@, id)]))
                /\ IF id \in DOMAIN certificates
                   THEN /\ certificates' = [certificates EXCEPT
                              ![id].status = "generated",
                              ![id].certificate_url = getPublicUrl(certificateFileName(id))]
                        /\ obs' = [obs EXCEPT ![r].written =
                                      Append(@, [id |-> id, status |-> "generated"])]
                   ELSE UNCHANGED <<certificates, obs>>
    /\ UNCHANGED <<certificate_templates, certificate_batches, issued, storage, page,
                   invocations, now>>

\* update({status: 'failed', error_message: error.message}).eq('id', id); the
\* result of this update is not looked at.
MarkFailed(r, ok) ==
    /\ run[r].pc = "catch"
    /\ LET id == run[r].certificates[run[r].i].id
       IN  IF ok /\ id \in DOMAIN certificates
           THEN /\ certificates' = [certificates EXCEPT
                      ![id].status = "failed",
                      ![id].error_message = run[r].error]
                /\ obs' = [obs EXCEPT ![r].written =
                              Append(@, [id |-> id, status |-> "failed"])]
           ELSE UNCHANGED <<certificates, obs>>
    /\ run' = Local(r, NextCertificate(r, [run[r] EXCEPT !.error = NoMessage]))
    /\ UNCHANGED <<certificate_templates, certificate_batches, issued, storage, page,
                   invocations, now>>

BatchStatus_AlwaysCompleted(processed, total) == "completed"

BatchStatus_PartialWhenEmpty(processed, total) ==
    IF processed = total /\ total > 0 THEN "completed" ELSE "partial"

BatchStatus_AnyProcessed(processed, total) ==
    IF processed > 0 \/ total = 0 THEN "completed" ELSE "partial"

\* processedCertificates.length === certificates.length ? 'completed' : 'partial'
BatchStatus(processed, total) == IF processed = total THEN "completed" ELSE "partial"

UpdateBatch_Rollback(r, ok) ==
    /\ run[r].pc = "finalize"
    /\ LET processed == Len(run[r].processedCertificates)
           total == Len(run[r].certificates)
           id == run[r].batchId
       IN  IF ~ok
           THEN /\ Throw(r, "batch update failed")
                /\ certificates' = [c \in DOMAIN certificates |->
                      IF c \in {x.id : x \in Range(run[r].certificates)}
                      THEN [certificates[c] EXCEPT !.status = "pending"]
                      ELSE certificates[c]]
                /\ UNCHANGED <<certificate_batches, now, obs>>
           ELSE /\ run' = Local(r, [run[r] EXCEPT
                      !.pc = "done",
                      !.response = SuccessResponse(processed, total, id)])
                /\ UNCHANGED certificates
                /\ IF id \in DOMAIN certificate_batches
                   THEN /\ certificate_batches' = [certificate_batches EXCEPT
                              ![id].status = BatchStatus(processed, total),
                              ![id].generated_certificates = processed,
                              ![id].updated_at = now + 1]
                        /\ now' = now + 1
                        /\ obs' = [obs EXCEPT ![r].batchWrites = @ + 1]
                   ELSE UNCHANGED <<certificate_batches, now, obs>>
    /\ UNCHANGED <<certificate_templates, issued, storage, page, invocations>>

UpdateBatch_Cumulative(r, ok) ==
    /\ run[r].pc = "finalize"
    /\ LET processed == Len(run[r].processedCertificates)
           total == Len(run[r].certificates)
           id == run[r].batchId
       IN  IF ~ok
           THEN /\ Throw(r, "batch update failed")
                /\ UNCHANGED <<certificate_batches, now, obs>>
           ELSE /\ run' = Local(r, [run[r] EXCEPT
                      !.pc = "done",
                      !.response = SuccessResponse(processed, total, id)])
                /\ IF id \in DOMAIN certificate_batches
                   THEN /\ certificate_batches' = [certificate_batches EXCEPT
                              ![id].status = BatchStatus(processed, total),
                              ![id].generated_certificates = @ + processed,
                              ![id].updated_at = now + 1]
                        /\ now' = now + 1
                        /\ obs' = [obs EXCEPT ![r].batchWrites = @ + 1]
                   ELSE UNCHANGED <<certificate_batches, now, obs>>
    /\ UNCHANGED <<certificate_templates, certificates, issued, storage, page, invocations>>

\* The closing update of the batch row, then the success response.  An update
\* that finds no row with the id changes nothing and is no error.
UpdateBatch(r, ok) ==
    /\ run[r].pc = "finalize"
    /\ LET processed == Len(run[r].processedCertificates)
           total == Len(run[r].certificates)
           id == run[r].batchId
       IN  IF ~ok
           THEN /\ Throw(r, "batch update failed")
                /\ UNCHANGED <<certificate_batches, now, obs>>
           ELSE /\ run' = Local(r, [run[r] EXCEPT
                      !.pc = "done",
                      !.response = SuccessResponse(processed, total, id)])
                /\ IF id \in DOMAIN certificate_batches
                   THEN /\ certificate_batches' = [certificate_batches EXCEPT
                              ![id].status = BatchStatus(processed, total),
                              ![id].generated_certificates = processed,
                              ![id].updated_at = now + 1]
                        /\ now' = now + 1
                        /\ obs' = [obs EXCEPT ![r].batchWrites = @ + 1]
                   ELSE UNCHANGED <<certificate_batches, now, obs>>
    /\ UNCHANGED <<certificate_templates, certificates, issued, storage, page, invocations>>

\* ----------------------------------------------------------- specifications
\* A user submits one of the spreadsheets for one of the templates given or
\* for a template created since.
Submit(maxBatches, maxCerts, templates, files) ==
    \/ \E t \in templates \cup (Len(Templates) + 1)..issued.certificate_templates,
           excelData \in files, ok \in BOOLEAN :
          /\ issued.certificate_batches < maxBatches
          /\ issued.certificates + Len(excelData) <= maxCerts
          /\ onSubmit(t, excelData, ok)
    \/ \E ok \in BOOLEAN : InsertCertificates(ok)

\* A user creates a template from one of the forms.
Create(maxTemplates, forms) ==
    \E form \in forms, ok \in BOOLEAN :
        /\ issued.certificate_templates < Len(Templates) + maxTemplates
        /\ CreateTemplate(form, form.placeholders, ok)

\* The user deletes one of the templates given or a template created since,
\* with or without batches.
Delete(templates) ==
    \E templateId \in templates \cup (Len(Templates) + 1)..issued.certificate_templates,
       ok \in BOOLEAN :
        deleteTemplate(templateId, ok)

Request(r, maxBatches, maxInvocations, kinds) ==
    \E method \in {"OPTIONS", "POST"}, body \in Bodies(maxBatches, kinds) :
        /\ invocations < maxInvocations
        /\ Receive(r, method, body)

Step(r) ==
    \/ ReadBody(r)
    \/ \E ok \in BOOLEAN : LookupBatch(r, ok)
    \/ \E ok \in BOOLEAN : ListCertificates(r, ok)
    \/ \E ok \in BOOLEAN : UploadCertificate(r, ok)
    \/ \E ok \in BOOLEAN : UpdateCertificate(r, ok)
    \/ \E ok \in BOOLEAN : MarkFailed(r, ok)
    \/ \E ok \in BOOLEAN : UpdateBatch(r, ok)

\* Any number of requests may be in progress at once; the batches use the
\* template whose placeholders all compile, or a template created since.
Next ==
    \/ Submit(MaxBatches, MaxCerts, {1}, ParFiles)
    \/ Create(MaxTemplates, TemplateForms)
    \/ Delete({1})
    \/ \E r \in Runs : Request(r, MaxBatches, MaxInvocations, {"text"}) \/ Step(r)

Spec == Init /\ [][Next]_vars

\* One request at a time: the next arrives after the previous was answered.
SeqRequest ==
    /\ \A q \in Runs : ~Active(q)
    /\ Request(1, SeqMaxBatches, SeqMaxInvocations, BodyKinds)

SeqNext ==
    \/ Submit(SeqMaxBatches, SeqMaxCerts, SeqTemplates, SeqFiles)
    \/ Create(SeqMaxTemplates, TemplateForms)
    \/ Delete(SeqTemplates)
    \/ SeqRequest
    \/ Step(1)

SeqSpec == Init /\ [][SeqNext]_vars

\* One record rendered: every template with every one-row spreadsheet.
RenderRequest ==
    /\ \A q \in Runs : ~Active(q)
    /\ Request(1, RenderMaxBatches, RenderMaxInvocations, {"text"})

RenderNext ==
    \/ Submit(RenderMaxBatches, RenderMaxCerts, TemplateIds, RenderFiles)
    \/ Create(RenderMaxTemplates, TemplateForms)
    \/ Delete(SeqTemplates)
    \/ RenderRequest
    \/ Step(1)

RenderSpec == Init /\ [][RenderNext]_vars

\* One request at a time, each store call of a request in progress returning
\* in the end, with or without an error.
LiveRequest ==
    /\ \A q \in Runs : ~Active(q)
    /\ Request(1, LiveMaxBatches, LiveMaxInvocations, BodyKinds)

LiveNext ==
    \/ Submit(LiveMaxBatches, LiveMaxCerts, SeqTemplates, SeqFiles)
    \/ Create(LiveMaxTemplates, TemplateForms)
    \/ Delete(SeqTemplates)
    \/ LiveRequest
    \/ Step(1)

LiveSpec == Init /\ [][LiveNext]_vars /\ WF_vars(Step(1))

\* A pair of requests in progress at once, each for a batch that the other
\* one is not working on; the batches have one record each.
ParRuns == {1, 2}

ParRequest(r) ==
    \E method \in {"OPTIONS", "POST"}, body \in Bodies(ParMaxBatches, {"text"}) :
        /\ invocations < ParMaxInvocations
        /\ \A q \in Runs \ {r} :
              (Active(q) /\ body.kind = "object") =>
                  (run[q].batchId # body.batchId /\ run[q].body.batchId # body.batchId)
        /\ Receive(r, method, body)

ParNext ==
    \/ Submit(ParMaxBatches, ParMaxCerts, {1}, ParFiles)
    \/ Create(ParMaxTemplates, TemplateForms)
    \/ Delete({1})
    \/ \E r \in ParRuns : ParRequest(r) \/ Step(r)

ParSpec == Init /\ [][ParNext]_vars

\* ------------------------------------------------------------ observations
Done(r) == run[r].pc = "done"

Succeeded(r) == Done(r) /\ run[r].response.success

Failed(r) == Done(r) /\ run[r].response.status = 500

\* The loop of r has gone through its whole list.
LoopFinished(r) == run[r].i > Len(run[r].certificates)

ListIds(r) == {c.id : c \in Range(run[r].certificates)}

ThrownIds(r) == {e.id : e \in Range(obs[r].thrown)}

Count(seq, x) == Cardinality({i \in 1..Len(seq) : seq[i] = x})

\* The last certificate update of r that took effect on id.
LastWritten(r, id) ==
    LET w == obs[r].written
        last == CHOOSE i \in 1..Len(w) :
                    w[i].id = id /\ \A j \in (i + 1)..Len(w) : w[j].id # id
    IN  w[last].status

\* The batch of r has its row.
BatchExists(r) == run[r].batchId \in DOMAIN certificate_batches

\* Every id a certificate was given.
CertificateIds == 1..issued.certificates

\* ------------------------------------------------------------------ claims
\* C1: per-record isolation.  When one run has gone through its list, every
\* record whose rendering, upload or status update failed has status failed
\* and carries that failure's message, and every record of the list was
\* attempted.  (Stated for the records that still have their row.)
C1_PerRecordIsolation ==
    \A r \in Runs :
        LoopFinished(r) =>
            /\ \A e \in Range(obs[r].thrown) :
                  e.id \in DOMAIN certificates =>
                      /\ certificates[e.id].status = "failed"
                      /\ certificates[e.id].error_message = e.message
            /\ ListIds(r) = Range(obs[r].attempted)

\* C2: completion policy.  A run that listed N > 0 pending records, M of which
\* failed, leaves generated_certificates = N - M on the batch, with status
\* completed when M = 0 and partial when 0 < M < N; N - M records of its list
\* are generated.
C2_CompletionPolicy ==
    \A r \in Runs :
        (Succeeded(r) /\ Len(run[r].certificates) > 0 /\ BatchExists(r)) =>
            LET N == Len(run[r].certificates)
                M == Len(obs[r].thrown)
                row == certificate_batches[run[r].batchId]
            IN  /\ row.generated_certificates = N - M
                /\ M = 0 => row.status = "completed"
                /\ (0 < M /\ M < N) => row.status = "partial"
                /\ Cardinality({id \in ListIds(r) :
                                   certificates[id].status = "generated"}) = N - M

C2_Witness ==
    /\ Succeeded(1)
    /\ Len(run[1].certificates) = 3
    /\ Len(obs[1].thrown) = 1
    /\ BatchExists(1)
    /\ certificate_batches[run[1].batchId].status = "partial"
    /\ certificate_batches[run[1].batchId].generated_certificates = 2

\* C3 as claimed: the status written to the batch is completed exactly when
\* every attempted record succeeded and at least one record was attempted,
\* and partial in every other case.
C3_AggregationAsClaimed ==
    \A r \in Runs :
        (Succeeded(r) /\ BatchExists(r)) =>
            LET attemptedCount == Len(obs[r].attempted)
                succeededCount == Count([i \in 1..Len(obs[r].written) |->
                                            obs[r].written[i].status], "generated")
                status == certificate_batches[run[r].batchId].status
            IN  /\ status = "completed" <=>
                      (succeededCount = attemptedCount /\ attemptedCount > 0)
                /\ status \in {"completed", "partial"}

\* C3 as amended: the status written to the batch is completed exactly when
\* the number of succeeded records equals the number of attempted records,
\* zero attempted included, and partial otherwise.
C3_Aggregation ==
    \A r \in Runs :
        (Succeeded(r) /\ BatchExists(r)) =>
            LET attemptedCount == Len(obs[r].attempted)
                succeededCount == Count([i \in 1..Len(obs[r].written) |->
                                            obs[r].written[i].status], "generated")
                status == certificate_batches[run[r].batchId].status
            IN  /\ succeededCount <= attemptedCount
                /\ status = "completed" <=> succeededCount = attemptedCount
                /\ status = "partial" <=> succeededCount < attemptedCount

C3_Witness ==
    /\ Succeeded(1)
    /\ obs[1].attempted = <<>>
    /\ BatchExists(1)
    /\ certificate_batches[run[1].batchId].status = "completed"

\* C4: only pending records are processed.  The list of a run is exactly the
\* records of its batch that are pending when the query runs; a step of a
\* request changes the row or the stored content of a record only for a run
\* that has the record in its list; and with one request at a time a failed
\* record stays failed.
SlotOf(store, id) ==
    IF certificateFileName(id) \in DOMAIN store
    THEN <<store[certificateFileName(id)]>> ELSE <<>>

C4_OnlyPending ==
    [][ /\ \A r \in Runs :
              (run[r].pc = "list" /\ run'[r].pc \in {"upload", "finalize"}) =>
                  {c.id : c \in Range(run'[r].certificates)} =
                      {id \in DOMAIN certificates :
                          /\ certificates[id].batch_id = run[r].batchId
                          /\ certificates[id].status = "pending"}
        /\ \A id \in CertificateIds :
              (\/ /\ id \in DOMAIN certificates /\ id \in DOMAIN certificates'
                  /\ certificates'[id] # certificates[id]
               \/ SlotOf(storage', id) # SlotOf(storage, id)) =>
                  \E r \in Runs : Active(r) /\ id \in ListIds(r)
        /\ \A id \in DOMAIN certificates \cap DOMAIN certificates' :
              certificates[id].status = "failed" => certificates'[id].status = "failed"
      ]_vars

\* A second request has gone through a batch that has a failed record
\* without touching it.
C4_Witness ==
    /\ Succeeded(1)
    /\ invocations = 2
    /\ ListIds(1) # {}
    /\ \E id \in DOMAIN certificates :
          /\ certificates[id].batch_id = run[1].batchId
          /\ certificates[id].status = "failed"
          /\ id \notin ListIds(1)

\* C5: each record of a run's list transitions exactly once in that run.
\* When the loop is over no record of the list is still pending, each was
\* attempted once and each was written once.  (Stated for runs whose batch
\* still has its row.)
C5_ExactlyOnce ==
    \A r \in Runs :
        (LoopFinished(r) /\ BatchExists(r)) =>
            \A id \in ListIds(r) :
                /\ certificates[id].status # "pending"
                /\ Count(obs[r].attempted, id) = 1
                /\ Cardinality({i \in 1..Len(obs[r].written) :
                                   obs[r].written[i].id = id}) = 1

\* What holds of a run that is over, whatever was thrown for its records:
\* it has attempted every record of its list, in order, what it caught was
\* thrown for records of the list, and a POST that was not answered 500 was
\* answered with success.
LoopCompleted(r) ==
    /\ obs[r].attempted = [i \in 1..Len(run[r].certificates) |-> run[r].certificates[i].id]
    /\ ThrownIds(r) \subseteq ListIds(r)
    /\ (run[r].method = "POST" /\ ~Failed(r)) => Succeeded(r)

\* A step of r inside the loop stays in the loop or leaves it for the batch
\* update, at the same record or the next, and answers nothing.
LoopGoesOn(r) ==
    (run[r].pc \in {"upload", "update", "catch"} /\ run'[r] # run[r]) =>
        /\ run'[r].pc \in {"upload", "update", "catch", "finalize"}
        /\ run'[r].i \in {run[r].i, run[r].i + 1}
        /\ run'[r].response = NoResponse

\* C6 as claimed: per-record errors never escape.  A run comes to answer 500
\* only in the step of the batch lookup, of the pending query or of the batch
\* update, a step inside the loop never ends the run, and a run that is over
\* has attempted every record of its list.
C6_ErrorsContainedAsClaimed ==
    /\ [](\A r \in Runs : Done(r) => LoopCompleted(r))
    /\ [][ \A r \in Runs :
              /\ (~Failed(r) /\ Failed(r)') => run[r].pc \in {"lookup", "list", "finalize"}
              /\ LoopGoesOn(r)
      ]_vars

\* C6 as amended: a run comes to answer 500 only in the step that reads the
\* request body or in that of the batch lookup, of the pending query or of
\* the batch update; when it is the reading of the body, no store call was
\* made before and none is made in it; a step inside the loop never ends the
\* run, and a run that is over has attempted every record of its list.
C6_ErrorsContained ==
    /\ [](\A r \in Runs : Done(r) => LoopCompleted(r))
    /\ [][ \A r \in Runs :
              /\ (~Failed(r) /\ Failed(r)') =>
                    run[r].pc \in {"body", "lookup", "list", "finalize"}
              /\ (run[r].pc = "body" /\ run'[r] # run[r]) =>
                    /\ run[r].batch = NoBatch /\ run'[r].batch = NoBatch
                    /\ run[r].certificates = <<>> /\ run'[r].certificates = <<>>
                    /\ obs[r] = NoObs /\ obs'[r] = NoObs
                    /\ stores' = stores
                    /\ Failed(r)' \/ run'[r].pc = "lookup"
              /\ LoopGoesOn(r)
      ]_vars

\* A success answer after a record's update failed and the update marking
\* it failed did not take effect either.
C6_Witness ==
    /\ Succeeded(1)
    /\ Len(run[1].certificates) = 3
    /\ \E e \in Range(obs[1].thrown) :
          /\ e.message = "certificate update failed"
          /\ e.id = run[1].certificates[1].id
          /\ e.id \in DOMAIN certificates
          /\ certificates[e.id].status = "pending"

\* C7: not found is fatal and free of writes.  The lookup of a batch id that
\* has no row ends the run with the 500 answer in that very step, without a
\* change to any table or to the bucket, and such a run has stored no
\* content and written no certificate and no batch.  (A batch row is never
\* without its template, so this is the one way a lookup finds nothing.)
NotFound(r) == run[r].pc = "lookup" /\ ~BatchExists(r)

C7_NotFoundWritesNothing ==
    /\ [](\A r \in Runs :
             (Done(r) /\ run[r].method = "POST" /\ run[r].batch = NoBatch) =>
                 /\ Failed(r)
                 /\ obs[r] = NoObs
                 /\ run[r].certificates = <<>>)
    /\ [][ \A r \in Runs :
              (NotFound(r) /\ run'[r] # run[r]) =>
                  /\ Failed(r)'
                  /\ run'[r].batch = NoBatch
                  /\ obs'[r] = NoObs
                  /\ stores' = stores
      ]_vars

\* A request for a batch that was deleted with its template was answered
\* 500 and did nothing; what an earlier request published is still stored.
C7_Witness ==
    /\ Failed(1)
    /\ run[1].batchId \in 1..issued.certificate_batches /\ ~BatchExists(1)
    /\ run[1].response.error = "no rows returned"
    /\ run[1].batch = NoBatch /\ obs[1] = NoObs
    /\ invocations = 2
    /\ storage # <<>>

\* C8: batch finalization failure.  When the closing batch update fails the
\* run answers 500, the batch row has the status and the count the run found
\* when it loaded the batch, and every record the run wrote is as it wrote it.
ThrownMessage(r, id) ==
    (CHOOSE e \in Range(obs[r].thrown) : e.id = id).message

C8_FinalizationFailure ==
    \A r \in Runs :
        (Done(r) /\ run[r].response.error = "batch update failed") =>
            LET b == run[r].batchId
            IN  /\ Failed(r)
                /\ obs[r].batchWrites = 0
                /\ BatchExists(r) =>
                      /\ certificate_batches[b].status = run[r].batch.status
                      /\ certificate_batches[b].generated_certificates =
                             run[r].batch.generated_certificates
                      /\ \A id \in {w.id : w \in Range(obs[r].written)} :
                            /\ certificates[id].status = LastWritten(r, id)
                            /\ LastWritten(r, id) = "generated" =>
                                  certificates[id].certificate_url =
                                      getPublicUrl(certificateFileName(id))
                            /\ LastWritten(r, id) = "failed" =>
                                  certificates[id].error_message = ThrownMessage(r, id)

C8_Witness ==
    /\ Done(1)
    /\ run[1].response.error = "batch update failed"
    /\ BatchExists(1)
    /\ \E w1, w2 \in Range(obs[1].written) :
          w1.status = "generated" /\ w2.status = "failed"

\* C9 as claimed: every run of the orchestrator writes the batch row exactly
\* once.
C9_WrittenOncePerRunAsClaimed ==
    \A r \in Runs :
        (Done(r) /\ run[r].method = "POST") => obs[r].batchWrites = 1

\* C9 as amended: a run writes the batch row at most once, only when it
\* answers success, and then exactly once when the row is still there; the
\* row changes only in the step that follows the run's last record, only in
\* status, generated_certificates and updated_at, never to processing, and no
\* step of a run removes a row.
C9_WrittenOnceAtEnd ==
    [][ /\ \A r \in Runs :
              /\ obs'[r].batchWrites \in {0, 1}
              /\ obs'[r].batchWrites = 1 => Succeeded(r)'
              /\ (Succeeded(r)' /\ BatchExists(r)') => obs'[r].batchWrites = 1
        /\ DOMAIN certificate_batches \ DOMAIN certificate_batches' # {} =>
              /\ run' = run /\ obs' = obs
              /\ certificate_templates' # certificate_templates
        /\ \A b \in DOMAIN certificate_batches \cap DOMAIN certificate_batches' :
              /\ certificate_batches'[b].status # "processing"
              /\ certificate_batches'[b] # certificate_batches[b] =>
                    /\ \E r \in Runs :
                          /\ run[r].pc = "finalize" /\ run[r].batchId = b
                          /\ LoopFinished(r)
                          /\ Len(obs[r].attempted) = Len(run[r].certificates)
                          /\ obs[r].batchWrites = 0
                          /\ Succeeded(r)'
                    /\ certificate_batches'[b].template_id =
                           certificate_batches[b].template_id
                    /\ certificate_batches'[b].total_certificates =
                           certificate_batches[b].total_certificates
                    /\ certificate_batches'[b].status \in {"completed", "partial"}
      ]_vars

C9_Witness ==
    /\ Succeeded(1)
    /\ obs[1].batchWrites = 1
    /\ Len(obs[1].attempted) = 3
    /\ run[1].batch.status = "pending"
    /\ certificate_batches[run[1].batchId].status = "partial"
    /\ certificate_batches[run[1].batchId].updated_at = now

AlreadyExists == "The resource already exists"

C11_ConcurrentPublishSafe ==
    \A r, q \in Runs :
        r # q =>
            \A e \in Range(obs[r].thrown) :
                ~(e.message = AlreadyExists /\ e.id \in Range(obs[q].uploaded))

\* C12: a publish overwrites.  The file name of a record is a function of its
\* id alone, two records never have the same file name, and the upload for a
\* record whose slot already holds content is stored in place of that content
\* and is never refused.
C12_RepublishOverwrites ==
    /\ \A id1, id2 \in CertificateIds :
          certificateFileName(id1) = certificateFileName(id2) => id1 = id2
    /\ Cardinality(DOMAIN storage) <= issued.certificates
    /\ \A r \in Runs :
          \A e \in Range(obs[r].thrown) : e.message # AlreadyExists

\* C13: requests for different batches are independent.  A step of a request
\* for batch A loads only batch A and records of A, changes no record, slot
\* or batch row outside A, and leaves what a request for another batch reads
\* (that batch's row, its pending records, their slots) as it was; so the
\* steps of two such requests commute and every interleaving ends in the
\* state of running one after the other (the time of the writes apart).
BatchRecords(b) == {id \in DOMAIN certificates : certificates[id].batch_id = b}

C13_BatchesIndependent ==
    [][ \A r \in Runs :
            (Active(r) /\ run'[r] # run[r]) =>
                LET A == run[r].batchId
                IN  /\ run'[r].batch.id \in {0, A}
                    /\ \A c \in Range(run'[r].certificates) : c.batch_id = A
                    /\ DOMAIN certificates' = DOMAIN certificates
                    /\ DOMAIN certificate_batches' = DOMAIN certificate_batches
                    /\ \A id \in CertificateIds :
                          (\/ /\ id \in DOMAIN certificates
                              /\ certificates'[id] # certificates[id]
                           \/ SlotOf(storage', id) # SlotOf(storage, id)) =>
                              \E c \in Range(run[r].certificates) :
                                  c.id = id /\ c.batch_id = A
                    /\ \A b \in DOMAIN certificate_batches :
                          certificate_batches'[b] # certificate_batches[b] => b = A
                    /\ \A q \in Runs \ {r} :
                          (Active(q) /\ run[q].batchId # A) =>
                              /\ run'[q] = run[q]
                              /\ PendingCertificates(run[q].batchId)' =
                                     PendingCertificates(run[q].batchId)
      ]_vars

\* Two requests in progress at once, one per batch, have each generated the
\* record of their batch and completed it.
C13_Witness ==
    /\ Succeeded(1) /\ Succeeded(2)
    /\ run[1].batchId # run[2].batchId
    /\ \A r \in Runs :
          /\ Len(run[r].certificates) = 1
          /\ obs[r].written = <<[id |-> run[r].certificates[1].id, status |-> "generated"]>>
          /\ BatchExists(r)
          /\ certificate_batches[run[r].batchId].status = "completed"

\* C14: generated means published.  A record is set to generated only by the
\* request that has just stored the record's content, in the write that sets
\* certificate_url to the public URL of the record's own file name; so a
\* generated record always has a certificate_url, that of its own slot, and
\* the slot holds content.
C14_GeneratedMeansPublished ==
    /\ [](\A id \in DOMAIN certificates :
             certificates[id].status = "generated" =>
                 /\ certificates[id].certificate_url # NoText
                 /\ certificates[id].certificate_url = getPublicUrl(certificateFileName(id))
                 /\ certificateFileName(id) \in DOMAIN storage
                 /\ \A other \in CertificateIds :
                       other # id => certificates[id].certificate_url #
                                        getPublicUrl(certificateFileName(other)))
    /\ [][ \A id \in DOMAIN certificates \cap DOMAIN certificates' :
              (certificates'[id].status = "generated" /\ certificates[id].status # "generated") =>
                  \E r \in Runs :
                      /\ run[r].pc = "update"
                      /\ run[r].certificates[run[r].i].id = id
                      /\ obs[r].uploaded # <<>>
                      /\ obs[r].uploaded[Len(obs[r].uploaded)] = id
                      /\ certificates[id].certificate_url = NoText
                      /\ certificates'[id].certificate_url =
                             getPublicUrl(certificateFileName(id))
      ]_vars

\* Three records of one batch are generated, each with its own URL.
C14_Witness ==
    /\ DOMAIN certificates = 1..3
    /\ \A id \in 1..3 :
          /\ certificates[id].status = "generated"
          /\ certificates[id].certificate_url = getPublicUrl(certificateFileName(id))
    /\ Cardinality(DOMAIN storage) = 3

\* C15: the success response.  It is {success: true, processed, total,
\* batchId} with status 200, where total is the number of records of the
\* batch that were pending when the request listed them, processed is the
\* number of records the request set to generated, 0 <= processed <= total,
\* and processed is the generated_certificates the request wrote on the batch.
GeneratedBy(r) == {w.id : w \in {x \in Range(obs[r].written) : x.status = "generated"}}

C15_SuccessResponse ==
    /\ [](\A r \in Runs :
             Succeeded(r) =>
                 /\ run[r].response =
                        [status |-> 200, success |-> TRUE, error |-> NoMessage,
                         processed |-> Cardinality(GeneratedBy(r)),
                         total |-> Len(run[r].certificates),
                         batchId |-> run[r].batchId]
                 /\ 0 <= run[r].response.processed
                 /\ run[r].response.processed <= run[r].response.total)
    /\ [][ \A r \in Runs :
              /\ (run[r].pc = "list" /\ run'[r].pc \in {"upload", "finalize"}) =>
                    Len(run'[r].certificates) =
                        Cardinality({id \in BatchRecords(run[r].batchId) :
                                        certificates[id].status = "pending"})
              /\ (~Succeeded(r) /\ Succeeded(r)' /\ BatchExists(r)') =>
                    certificate_batches'[run[r].batchId].generated_certificates =
                        run'[r].response.processed
      ]_vars

\* C16 as claimed: nothing pending is not a failure.  A request that listed
\* no pending record for an existing batch is answered with success,
\* processed = 0 and total = 0, has written no record, and has written the
\* batch, which is completed with generated_certificates = 0.
ListedNone(r) == run[r].i >= 1 /\ run[r].certificates = <<>>

C16_NothingPendingAsClaimed ==
    \A r \in Runs :
        (ListedNone(r) /\ Done(r)) =>
            /\ Succeeded(r)
            /\ run[r].response.processed = 0 /\ run[r].response.total = 0
            /\ obs[r].written = <<>>
            /\ BatchExists(r) =>
                  /\ certificate_batches[run[r].batchId].status = "completed"
                  /\ certificate_batches[run[r].batchId].generated_certificates = 0

\* C16 as amended: a request that lists no pending record for an existing
\* batch writes no record and stores no content, and goes on to the batch
\* update.  When that update returns without an error the request answers
\* success with processed = 0 and total = 0 and the batch row, if it is
\* still there, is written once, completed with generated_certificates = 0;
\* when it returns an error the request answers 500 with that error and has
\* not written the batch.
C16_NothingPending ==
    /\ [](\A r \in Runs :
             ListedNone(r) =>
                 /\ run[r].pc \in {"finalize", "done"}
                 /\ obs[r].written = <<>> /\ obs[r].uploaded = <<>> /\ obs[r].thrown = <<>>
                 /\ Failed(r) =>
                       /\ run[r].response.error = "batch update failed"
                       /\ obs[r].batchWrites = 0
                 /\ Succeeded(r) =>
                       /\ run[r].response.processed = 0
                       /\ run[r].response.total = 0
                       /\ BatchExists(r) =>
                             /\ obs[r].batchWrites = 1
                             /\ certificate_batches[run[r].batchId].status = "completed"
                             /\ certificate_batches[run[r].batchId]
                                    .generated_certificates = 0)
    /\ [][ \A r \in Runs :
              /\ (/\ run[r].pc = "list" /\ run'[r].pc # "list"
                  /\ PendingCertificates(run[r].batchId) = <<>>) =>
                     \/ ListedNone(r)' /\ run'[r].pc = "finalize"
                     \/ Failed(r)' /\ run'[r].response.error = "certificates query failed"
              /\ (ListedNone(r) /\ run[r].pc = "finalize" /\ run'[r] # run[r]) =>
                     \/ Succeeded(r)' /\ certificates' = certificates /\ storage' = storage
                     \/ Failed(r)' /\ stores' = stores
      ]_vars

\* A second request finds the three records of the batch generated and
\* nothing pending.
C16_Witness ==
    /\ Succeeded(1) /\ ListedNone(1)
    /\ invocations = 2
    /\ Cardinality({id \in BatchRecords(run[1].batchId) :
                       certificates[id].status = "generated"}) = 3
    /\ certificate_batches[run[1].batchId].status = "completed"
    /\ certificate_batches[run[1].batchId].generated_certificates = 0

\* C17: generated_certificates counts one request.  The batch update sets it
\* to the number of records this request set to generated, whatever it was
\* before, so after a second request it can be smaller than the number of
\* generated records of the batch.
C17_PerRunCount ==
    [][ \A r \in Runs :
            (~Succeeded(r) /\ Succeeded(r)' /\ BatchExists(r)') =>
                /\ certificate_batches'[run[r].batchId].generated_certificates =
                       Cardinality(GeneratedBy(r))
                /\ certificate_batches'[run[r].batchId].generated_certificates <=
                       Cardinality({id \in BatchRecords(run[r].batchId)' :
                                       certificates'[id].status = "generated"})
      ]_vars

\* A second request generated one record of a batch that now has two
\* generated records, and the batch says 1.
C17_Witness ==
    /\ Succeeded(1)
    /\ invocations = 2
    /\ run[1].batch.generated_certificates = 1
    /\ Cardinality(GeneratedBy(1)) = 1
    /\ certificate_batches[run[1].batchId].generated_certificates = 1
    /\ Cardinality({id \in BatchRecords(run[1].batchId) :
                       certificates[id].status = "generated"}) = 2

\* ------------------------------------------------- substitution as specified
\* The records whose content is stored and whose row, batch and template are
\* there, the content, and the template body and the data it was rendered
\* from.
Published ==
    {id \in DOMAIN certificates : certificateFileName(id) \in DOMAIN storage}

Rendered(id) == storage[certificateFileName(id)]

TemplateOf(id) ==
    certificate_templates[certificate_batches[certificates[id].batch_id].template_id]
        .template_content

DataOf(id) == certificates[id].certificate_data

Keys(entries) == {e.key : e \in Range(entries)}

\* The places where a text occurs in another.
Occurrences(marker, text) ==
    {i \in 1..Len(text) :
        i + Len(marker) - 1 <= Len(text) /\ SubSeq(text, i, i + Len(marker) - 1) = marker}

\* The substitution the specification describes: every occurrence of the
\* marker, read as plain text, gives way to the value, character for character.
RECURSIVE LiteralReplaceFrom(_, _, _, _)
LiteralReplaceFrom(text, i, marker, value) ==
    IF i > Len(text) THEN <<>>
    ELSE IF i \in Occurrences(marker, text)
         THEN value \o LiteralReplaceFrom(text, i + Len(marker), marker, value)
    ELSE <<text[i]>> \o LiteralReplaceFrom(text, i + 1, marker, value)

RECURSIVE LiteralRender(_, _)
LiteralRender(text, entries) ==
    IF entries = <<>> THEN text
    ELSE LiteralRender(LiteralReplaceFrom(text, 1, Placeholder(entries[1].key),
                                          String(entries[1].value)),
                       Tail(entries))

HasChar(text, ch) == \E i \in 1..Len(text) : text[i] = ch

\* The names a marker of a template body can have.
MarkerNames ==
    {<<"a">>, <<"b">>, <<"1">>, <<"a", ".", "c">>, <<"a", "b", "c">>, <<"a", "\n", "c">>,
     <<"a", "{", "2", "}">>, <<"a", "a">>, <<"$">>, <<"(", "a", ")">>}

\* C18: substitution replaces every occurrence.  In the content stored for a
\* record no marker {{k}} of a key k of its data is left, and every
\* occurrence of {{k}} in the template body has given way to String(D[k]).
\* (Stated for keys without a wildcard and values without a dollar sign,
\* which C19 and C20 are about; no value here contains a marker.)
C18_EveryOccurrenceReplaced ==
    \A id \in Published :
        (/\ \A e \in Range(DataOf(id)) : ~HasChar(e.key, ".")
         /\ \A e \in Range(DataOf(id)) : ~HasChar(String(e.value), "$")) =>
            /\ \A k \in Keys(DataOf(id)) : Occurrences(Placeholder(k), Rendered(id)) = {}
            /\ Rendered(id) = LiteralRender(TemplateOf(id), DataOf(id))

\* C19: markers without a key pass through.  A marker {{k}} of the template
\* body whose name is not a key of the record's data is in the stored content
\* as many times as in the body, whatever the keys of the data are.
C19_UnmappedPassThrough ==
    \A id \in Published :
        \A k \in MarkerNames \ Keys(DataOf(id)) :
            Cardinality(Occurrences(Placeholder(k), Rendered(id))) =
                Cardinality(Occurrences(Placeholder(k), TemplateOf(id)))

\* C20: values go in verbatim.  The stored content is the template body with
\* each marker {{k}} of a key replaced by exactly the characters of
\* String(D[k]), numbers in decimal.  (Stated for keys made of letters, so
\* that the marker is matched as plain text.)
C20_ValuesVerbatim ==
    \A id \in Published :
        (\A e \in Range(DataOf(id)) : \A i \in 1..Len(e.key) : IsLetter(e.key[i])) =>
            Rendered(id) = LiteralRender(TemplateOf(id), DataOf(id))

\* The orders in which the entries of an object can be gone through.
Orders(entries) ==
    {order \in [1..Len(entries) -> 1..Len(entries)] :
        \A i, j \in 1..Len(entries) : i # j => order[i] # order[j]}

InOrder(entries, order) == [i \in 1..Len(entries) |-> entries[order[i]]]

\* C21: substitution does not depend on the order of the keys.  The content
\* stored for a record is what the substitution gives with the keys of its
\* data gone through in any order.
C21_OrderIndependent ==
    \A id \in Published :
        \A order \in Orders(DataOf(id)) :
            RenderEntries(TemplateOf(id), InOrder(DataOf(id), order)) = Rendered(id)

\* C22: rendering twice is rendering once.  When no value of a record's data
\* contains marker text, substituting the data into the stored content again
\* gives the stored content.
HasMarkerText(text) ==
    \E i \in 1..Len(text) : i < Len(text) /\ text[i] = "{" /\ text[i + 1] = "{"

C22_Idempotent ==
    \A id \in Published :
        (\A e \in Range(DataOf(id)) : ~HasMarkerText(String(e.value))) =>
            Render(Rendered(id), DataOf(id)) = Rendered(id)

\* C23: batch creation.  The batch insert of a submission adds one batch for
\* the selected template with status pending, total_certificates = N, the
\* number of rows of the spreadsheet, and generated_certificates = 0; the
\* insert that follows adds N records of that batch, one per row of the
\* spreadsheet and in its order, all pending and without certificate_url;
\* neither changes another row.
C23_BatchCreation ==
    [][ /\ (page.pc = "idle" /\ page'.pc = "certificates") =>
              LET b == page'.batch
              IN  /\ b \notin DOMAIN certificate_batches
                  /\ DOMAIN certificate_batches' = DOMAIN certificate_batches \cup {b}
                  /\ certificate_batches'[b].template_id = page'.selectedTemplate
                  /\ certificate_batches'[b].status = "pending"
                  /\ certificate_batches'[b].total_certificates = Len(page'.excelData)
                  /\ certificate_batches'[b].generated_certificates = 0
                  /\ \A k \in DOMAIN certificate_batches :
                        certificate_batches'[k] = certificate_batches[k]
                  /\ certificates' = certificates
        /\ (/\ page.pc = "certificates" /\ page'.pc = "idle"
            /\ issued'.certificates # issued.certificates) =>
              LET b == page.batch
                  first == issued.certificates
                  N == issued'.certificates - issued.certificates
                  t == page.selectedTemplate
              IN  /\ b \in DOMAIN certificate_batches
                  /\ certificate_batches' = certificate_batches
                  /\ N = Len(page.excelData)
                  /\ N = certificate_batches[b].total_certificates
                  /\ DOMAIN certificates' =
                         DOMAIN certificates \cup (first + 1)..(first + N)
                  /\ \A id \in DOMAIN certificates : certificates'[id] = certificates[id]
                  /\ \A id \in (first + 1)..(first + N) :
                        /\ id \notin DOMAIN certificates
                        /\ certificates'[id].batch_id = b
                        /\ certificates'[id].status = "pending"
                        /\ certificates'[id].certificate_url = NoText
                        /\ certificates'[id].certificate_data =
                               ObjectEntries(MapRow(certificate_templates[t].placeholders,
                                   PlaceholderMapping(certificate_templates[t].placeholders),
                                   page.excelData[id - first]))
      ]_vars

\* A batch of three rows has just been created.
C23_Witness ==
    /\ invocations = 0
    /\ page = NoPage
    /\ DOMAIN certificate_batches = {1}
    /\ certificate_batches[1].total_certificates = 3
    /\ Cardinality(BatchRecords(1)) = 3
    /\ \A id \in BatchRecords(1) : certificates[id].status = "pending"

\* C24: one record at a time.  Within a request the records are taken in the
\* order of the list; the publish of a record starts only when the status
\* write of the record before it (generated, or failed in the catch) has
\* returned, so at most one record is between its publish and the return of
\* its status write.
InFlight(r) ==
    IF run[r].pc \in {"update", "catch"} THEN {run[r].certificates[run[r].i].id} ELSE {}

C24_OneAtATime ==
    /\ [](\A r \in Runs :
             run[r].i >= 1 =>
                 LET k == IF run[r].pc \in {"update", "catch"} THEN run[r].i
                          ELSE run[r].i - 1
                 IN  /\ obs[r].attempted = [j \in 1..k |-> run[r].certificates[j].id]
                     /\ Cardinality(InFlight(r)) <= 1
                     /\ \A id \in InFlight(r) : id = obs[r].attempted[k])
    /\ [][ \A r \in Runs :
              /\ (run[r].pc = "upload" /\ run'[r] # run[r]) =>
                    /\ InFlight(r) = {}
                    /\ run'[r].pc \in {"update", "catch"}
                    /\ run'[r].i = run[r].i
                    /\ obs'[r].attempted =
                           Append(obs[r].attempted, run[r].certificates[run[r].i].id)
              /\ (run[r].pc = "update" /\ run'[r] # run[r]) =>
                    \/ run'[r].pc = "catch" /\ run'[r].i = run[r].i
                    \/ /\ run'[r].pc \in {"upload", "finalize"}
                       /\ run'[r].i = run[r].i + 1
                       /\ run[r].certificates[run[r].i].id \in DOMAIN certificates =>
                             obs'[r].written =
                                 Append(obs[r].written,
                                        [id |-> run[r].certificates[run[r].i].id,
                                         status |-> "generated"])
              /\ (run[r].pc = "catch" /\ run'[r] # run[r]) =>
                    /\ run'[r].pc \in {"upload", "finalize"}
                    /\ run'[r].i = run[r].i + 1
              /\ (run[r].pc \in {"update", "catch"}) =>
                    obs'[r].attempted = obs[r].attempted
      ]_vars

\* The third record of a list is being published after the first was
\* generated and the second was marked failed.
C24_Witness ==
    /\ run[1].pc = "update" /\ run[1].i = 3
    /\ obs[1].written = <<[id |-> run[1].certificates[1].id, status |-> "generated"],
                          [id |-> run[1].certificates[2].id, status |-> "failed"]>>
    /\ InFlight(1) = {run[1].certificates[3].id}

\* C25 as claimed: a batch with status completed has every one of its records
\* in status generated, whatever requests were run on it.
C25_CompletedMeansAllGeneratedAsClaimed ==
    \A b \in DOMAIN certificate_batches :
        certificate_batches[b].status = "completed" =>
            \A id \in BatchRecords(b) : certificates[id].status = "generated"

\* C25 as amended: with one request at a time, when the last request has
\* written completed on a batch, every record it listed is generated; a
\* record it did not list is generated or failed since an earlier request,
\* or is pending because the records of the batch were inserted after the
\* request listed none.
C25_CompletedMeansListedGenerated ==
    \A r \in Runs :
        (/\ Succeeded(r) /\ BatchExists(r)
         /\ certificate_batches[run[r].batchId].status = "completed") =>
            /\ \A id \in ListIds(r) : certificates[id].status = "generated"
            /\ \A id \in BatchRecords(run[r].batchId) \ ListIds(r) :
                  \/ certificates[id].status \in {"generated", "failed"}
                  \/ /\ ListedNone(r)
                     /\ \A other \in BatchRecords(run[r].batchId) :
                           certificates[other].status = "pending"

\* A second request has generated the record the first one left pending and
\* written completed on a batch that has a failed record.
C25_Witness ==
    /\ Succeeded(1)
    /\ invocations = 2
    /\ ListIds(1) # {}
    /\ BatchExists(1)
    /\ certificate_batches[run[1].batchId].status = "completed"
    /\ \E id \in BatchRecords(run[1].batchId) : certificates[id].status = "failed"

\* C26: the status of a record is monotone.  No step of any request, one in
\* progress at the same time on the same batch included, changes a generated
\* record to failed or pending, or a failed record to generated.
C26_StatusMonotone ==
    [][ \A id \in DOMAIN certificates \cap DOMAIN certificates' :
            /\ certificates[id].status = "generated" =>
                  certificates'[id].status = "generated"
            /\ certificates[id].status = "failed" =>
                  certificates'[id].status # "generated"
      ]_vars

\* C27: content only for generated records.  Whenever the slot of a record
\* holds content the record has status generated; a record whose upload was
\* stored and whose update to generated failed has no content left.  (Stated
\* for records that no request has between the upload and the return of its
\* status write.)
C27_ContentOnlyForGenerated ==
    \A id \in Published :
        (\A r \in Runs : id \notin InFlight(r)) => certificates[id].status = "generated"

\* C28: what is published.  For every record a request set to generated, the
\* content of its slot is the substitution, as specified, of the
\* certificate_data the request listed for the record into the template body
\* it loaded with the batch; with empty certificate_data the content is the
\* template body itself and the record is generated all the same.
C28_PublishedContent ==
    \A r \in Runs :
        \A k \in 1..Len(run[r].certificates) :
            LET certificate == run[r].certificates[k]
                name == certificateFileName(certificate.id)
            IN  (certificate.id \in GeneratedBy(r) /\ certificate.id \in Range(obs[r].uploaded)) =>
                    /\ name \in DOMAIN storage
                    /\ storage[name] = LiteralRender(run[r].batch.template_content,
                                                     certificate.certificate_data)
                    /\ certificate.certificate_data = <<>> =>
                          storage[name] = run[r].batch.template_content

\* C29: the records of a batch are as many as its total_certificates, in
\* every state, the one after a failed insert of the records included.
C29_TotalMatchesRecords ==
    \A b \in DOMAIN certificate_batches :
        Cardinality(BatchRecords(b)) = certificate_batches[b].total_certificates

\* C30: every request is answered once.  When every store call returns, a
\* request in progress reaches its response; the response of a POST request
\* is either the success response or the failure response, never both; it is
\* set in the step that ends the request and not changed afterwards, and a
\* request in progress has no response yet.
C30_AnsweredOnce ==
    /\ \A r \in Runs : Active(r) ~> Done(r)
    /\ [](\A r \in Runs :
             /\ Active(r) => run[r].response = NoResponse
             /\ (Done(r) /\ run[r].method = "POST") =>
                   \/ /\ Succeeded(r) /\ ~Failed(r)
                      /\ run[r].response.status = 200
                      /\ run[r].response.error = NoMessage
                   \/ /\ Failed(r) /\ ~Succeeded(r)
                      /\ run[r].response.error # NoMessage)
    /\ [][ \A r \in Runs :
              /\ run'[r].response # run[r].response =>
                    \/ Active(r) /\ Done(r)'
                    \/ ~Active(r) /\ run'[r].method # "none"
              /\ Active(r) => (Active(r)' \/ Done(r)')
      ]_vars

\* A request over three records has been answered with the success response
\* after one of the records failed.
C30_Witness ==
    /\ Done(1) /\ run[1].method = "POST"
    /\ Len(run[1].certificates) = 3
    /\ obs[1].thrown # <<>>
    /\ Succeeded(1)
    /\ run[1].response.processed = 2

====
